---- MODULE Spec2Model ----
(***************************************************************************)
(* Model of the ninebot-ble client (src/ninebot_ble/transport.py):         *)
(* the framer (Packet.pack / Packet.unpack), the notification handler      *)
(* (_read_callback), receive(), request(), the connect() handshake and     *)
(* read_reg().                                                             *)
(*                                                                         *)
(* Time is counted in ticks; TicksPerSecond ticks make one second.  A      *)
(* deadline "time.time() + t" is kept as the number of ticks left until    *)
(* it; "time.time() < deadline" is "ticks left > 0".  The code between two *)
(* awaits runs without the notification handler in between (asyncio), and  *)
(* any amount of time may pass at an await.                                *)
(***************************************************************************)
EXTENDS Integers, Sequences, FiniteSets, TLC

VARIABLES
    crypto,           \* self.crypto: what the cipher was told so far
    receive_queue,    \* self.receive_queue
    receive_buffer,   \* self.receive_buffer
    client,           \* self.client: "None", or a BleakClient: "BleakClient"
                      \*   (connected, notifications on), "Unsubscribed"
                      \*   (connected, stop_notify done), "Dropped"
                      \*   (client.is_connected is False)
    pc,               \* where the caller's coroutine is suspended
    reqCaller,        \* which call site of request() is active
    rcvCaller,        \* which call site of receive() is active
    request,          \* request(): the packet S being requested
    reqLeft,          \* request(): ticks until its deadline
    rcvLeft,          \* receive(): ticks until its deadline
    sleepLeft,        \* asyncio.sleep(1.0) of the pairing loop: ticks left
    resp,             \* connect(): the local variable resp
    received_key,     \* connect(): resp.data_segment[:16] of the INIT reply
    received_serial,  \* connect(): resp.data_segment[16:] of the INIT reply
    reg,              \* read_reg(): the register being read, or "none"
    regI,             \* read_reg(): the loop variable i
    regData,          \* read_reg(): the accumulator data
    result,           \* what the last finished call returned or raised
    cbError,          \* what the last run of _read_callback raised, or "ok"
    hist,             \* history of the current connect()/request() call
    rx,               \* the notification feed of the reassembly scenarios
    tx,               \* send(): its locals, and the writes on the RX
                      \*   characteristic
    fr,               \* the framer's input and output (Packet.pack/unpack)
    ev,               \* the event loop: handler tasks ready to run, handlers
                      \*   suspended in receive_queue.put, packets in the
                      \*   order of arrival and of delivery
    proc              \* the process: the class attribute
                      \*   NinebotClient.APP_KEY and the clients constructed

vars ==
    << crypto, receive_queue, receive_buffer, client, pc, reqCaller, rcvCaller,
       request, reqLeft, rcvLeft, sleepLeft, resp, received_key,
       received_serial, reg, regI, regData, result, cbError, hist, rx, tx, fr, ev, proc >>

----------------------------------------------------------------------------
(* Bounds of the model *)

\* ticks per second of the model's clock
TicksPerSecond == 2

\* the device sends a notification only while the queue is shorter than this
MaxQueue == 1

----------------------------------------------------------------------------
(* Helpers on byte sequences *)

Min(a, b) == IF a < b THEN a ELSE b

Dec(t) == IF t > 0 THEN t - 1 ELSE 0

\* s[:n]
Take(s, n) == SubSeq(s, 1, Min(n, Len(s)))

\* s[n:]
Drop(s, n) == SubSeq(s, n + 1, Len(s))

RECURSIVE Sum(_)
Sum(s) == IF s = << >> THEN 0 ELSE s[1] + Sum(Tail(s))

----------------------------------------------------------------------------
(* Wire identifiers *)

CommandValue ==
    [ READ |-> 1, WRITE |-> 2, WRITE_ACK_NO_REPLY |-> 3, READ_ACK |-> 4,
      WRITE_ACK |-> 5, INIT |-> 91, PING |-> 92, PAIR |-> 93 ]

Command == DOMAIN CommandValue

DeviceIdValue ==
    [ ES_CONTROL |-> 32, ES_BLE |-> 33, ES_BATT |-> 34, PC |-> 61 ]

DeviceId == DOMAIN DeviceIdValue

\* Command(v) and DeviceId(v): the member with value v (ValueError if none)
CommandOf(v) == CHOOSE c \in Command : CommandValue[c] = v

DeviceIdOf(v) == CHOOSE d \in DeviceId : DeviceIdValue[d] = v

IsCommandValue(v) == \E c \in Command : CommandValue[c] = v

IsDeviceIdValue(v) == \E d \in DeviceId : DeviceIdValue[d] = v

MAGIC == << 90, 165 >>

----------------------------------------------------------------------------
(* Packet *)

Packet(source, target, command, data_index, data_segment) ==
    [ source |-> source, target |-> target, command |-> command,
      data_index |-> data_index, data_segment |-> data_segment ]

NoPacket == Packet("PC", "PC", "READ", 0, << >>)

\* (variant: target is written before source)
PackTargetFirst(p) ==
    MAGIC \o << Len(p.data_segment), DeviceIdValue[p.target],
                DeviceIdValue[p.source], CommandValue[p.command],
                p.data_index >> \o p.data_segment

Pack(p) ==
    MAGIC \o << Len(p.data_segment), DeviceIdValue[p.source],
                DeviceIdValue[p.target], CommandValue[p.command],
                p.data_index >> \o p.data_segment

\* (variant: the payload length is not compared with the len byte)
UnpackAnyLength(data) ==
    IF Len(data) < 7 \/ Take(data, 2) # MAGIC
    THEN [ tag |-> "None", packet |-> NoPacket ]
    ELSE IF ~ IsDeviceIdValue(data[4]) \/ ~ IsDeviceIdValue(data[5])
            \/ ~ IsCommandValue(data[6])
    THEN [ tag |-> "ValueError", packet |-> NoPacket ]
    ELSE [ tag |-> "Packet",
           packet |-> Packet(DeviceIdOf(data[4]), DeviceIdOf(data[5]),
                             CommandOf(data[6]), data[7], Drop(data, 7)) ]

\* the result is a Packet, None, or the ValueError of an enum constructor
Unpack(data) ==
    IF Len(data) < 7 \/ Take(data, 2) # MAGIC
    THEN [ tag |-> "None", packet |-> NoPacket ]
    ELSE IF Len(data) < 7 + data[3]
    THEN [ tag |-> "None", packet |-> NoPacket ]
    ELSE IF ~ IsDeviceIdValue(data[4]) \/ ~ IsDeviceIdValue(data[5])
            \/ ~ IsCommandValue(data[6])
    THEN [ tag |-> "ValueError", packet |-> NoPacket ]
    ELSE [ tag |-> "Packet",
           packet |-> Packet(DeviceIdOf(data[4]), DeviceIdOf(data[5]),
                             CommandOf(data[6]), data[7], Drop(data, 7)) ]

----------------------------------------------------------------------------
(* The session cipher (NbCrypto, an external library).  Its contract: the  *)
(* three setters, and encrypt/decrypt that keep the length.  The handler   *)
(* reads the magic and the len byte from the undecrypted buffer, so the    *)
(* first three bytes are in clear; the rest is a keyed, position-dependent *)
(* byte substitution.                                                      *)

NoCrypto == [ name |-> "None", ble_data |-> << >>, app_data |-> << >> ]

NameDigest(name) ==
    CASE name = "None" -> 0
      [] name = "Unnamed" -> 17
      [] OTHER -> 39

KeyOf(c) == (NameDigest(c.name) + Sum(c.ble_data) + 3 * Sum(c.app_data)) % 256

Encrypt(c, buf) ==
    LET k == KeyOf(c)
    IN  [ i \in 1..Len(buf) |->
            IF i <= 3 THEN buf[i] ELSE (buf[i] + k + i) % 256 ]

Decrypt(c, buf) ==
    LET k == KeyOf(c)
    IN  [ i \in 1..Len(buf) |->
            IF i <= 3 THEN buf[i] ELSE (buf[i] + 512 - k - i) % 256 ]

----------------------------------------------------------------------------
(* _read_callback *)

\* (variant: the buffer is replaced by every notification)
BufferedReplaces(data) == data

\* the receive buffer after the notification was stored
Buffered(data) ==
    IF Take(data, 2) = MAGIC THEN data ELSE receive_buffer \o data

\* (variant: an overlong buffer is kept)
HandledKeepsOverlong(buf) ==
    IF Len(buf) < 3
    THEN [ error |-> "IndexError", put |-> FALSE, packet |-> NoPacket,
           buffer |-> buf ]
    ELSE LET decrypted == Decrypt(crypto, buf)
             total_len == buf[3] + 7
             unpacked == Unpack(decrypted)
         IN  IF Len(decrypted) = total_len
             THEN [ error |-> IF unpacked.tag = "ValueError"
                              THEN "ValueError" ELSE "ok",
                    put |-> unpacked.tag = "Packet",
                    packet |-> unpacked.packet,
                    buffer |-> buf ]
             ELSE [ error |-> "ok", put |-> FALSE, packet |-> NoPacket,
                    buffer |-> buf ]

\* the handler's outcome for the buffer buf: what it raises ("ok" if
\* nothing), whether it enqueues a packet, and the buffer it leaves
Handled(buf) ==
    IF Len(buf) < 3
    THEN [ error |-> "IndexError", put |-> FALSE, packet |-> NoPacket,
           buffer |-> buf ]
    ELSE LET decrypted == Decrypt(crypto, buf)
             total_len == buf[3] + 7
             unpacked == Unpack(decrypted)
         IN  IF Len(decrypted) = total_len
             THEN [ error |-> IF unpacked.tag = "ValueError"
                              THEN "ValueError" ELSE "ok",
                    put |-> unpacked.tag = "Packet",
                    packet |-> unpacked.packet,
                    buffer |-> buf ]
             ELSE IF Len(decrypted) >= total_len
             THEN [ error |-> "ok", put |-> FALSE, packet |-> NoPacket,
                    buffer |-> << >> ]
             ELSE [ error |-> "ok", put |-> FALSE, packet |-> NoPacket,
                    buffer |-> buf ]

ReadCallback(data) ==
    LET h == Handled(Buffered(data))
    IN  /\ receive_buffer' = h.buffer
        /\ receive_queue' =
              IF h.put THEN Append(receive_queue, h.packet) ELSE receive_queue
        /\ cbError' = h.error

----------------------------------------------------------------------------
(* Timeouts of the code, in ticks *)

\* request(timeout=5): seconds
RequestTimeoutS == 5

\* receive(timeout=1): seconds
ReceiveTimeoutS == 1

\* asyncio.sleep(1.0) of the pairing loop: seconds
PairSleepS == 1

RequestTimeout == RequestTimeoutS * TicksPerSecond

ReceiveTimeout == ReceiveTimeoutS * TicksPerSecond

PairSleep == PairSleepS * TicksPerSecond

----------------------------------------------------------------------------
(* The register catalog and the decoders.  An unpacker and a scaler are   *)
(* named by a string: "bit9" is lambda data: _unpack_LE16_bitfield_bool(   *)
(* data, 9); the scalers are "div100" x / 100, "div10" x / 10, "km"        *)
(* round(x / 1000, 1), "hours" round(x / 3600, 1), "low" x & 0xFF, "high"  *)
(* (x >> 8) & 0xFF, "low20" (x & 0xFF) - 20, "high20"                      *)
(* ((x >> 8) & 0xFF) - 20.                                                 *)

\* (variant: every entry is read with one request)
RegDescSingleRead(index_start, index_len, read_len, unpacker, scaler) ==
    [ index_start |-> index_start, index_len |-> 1,
      read_len |-> read_len, unpacker |-> unpacker, scaler |-> scaler ]

RegDesc(index_start, index_len, read_len, unpacker, scaler) ==
    [ index_start |-> index_start, index_len |-> index_len,
      read_len |-> read_len, unpacker |-> unpacker, scaler |-> scaler ]

CTRL_TABLE ==
    [ NB_INF_SN |-> RegDesc(16, 7, 2, "string", "none"),
      NB_INF_BTPASSWORD |-> RegDesc(23, 3, 2, "string", "none"),
      NB_FW_VER |-> RegDesc(26, 1, 2, "version", "none"),
      NB_INF_ERROR |-> RegDesc(27, 1, 2, "LE16", "none"),
      NB_INF_ALERM |-> RegDesc(28, 1, 2, "LE16", "none"),
      NB_INF_BOOL_LIMITSPEED |-> RegDesc(29, 1, 2, "bit0", "none"),
      NB_INF_BOOL_LOCK |-> RegDesc(29, 1, 2, "bit1", "none"),
      NB_INF_BOOL_BEEP |-> RegDesc(29, 1, 2, "bit2", "none"),
      NB_INF_BOOL_BAT2_IN |-> RegDesc(29, 1, 2, "bit9", "none"),
      NB_INF_BOOL_ACT |-> RegDesc(29, 1, 2, "bit11", "none"),
      NB_INF_ACTUAL_MIL |-> RegDesc(36, 1, 2, "LE16", "div100"),
      NB_INF_PRD_RID_MIL |-> RegDesc(37, 1, 2, "LE16", "div100"),
      NB_INF_RID_MIL |-> RegDesc(41, 2, 2, "U32_from2LE16", "km"),
      NB_INF_RUN_TIM |-> RegDesc(50, 2, 2, "U32_from2LE16", "km"),
      NB_INF_RID_TIM |-> RegDesc(52, 2, 2, "U32_from2LE16", "hours"),
      NB_INF_BODY_TEMP |-> RegDesc(62, 1, 2, "LE16", "div10"),
      NB_INF_DRV_VOLT |-> RegDesc(71, 1, 2, "LE16", "div100"),
      NB_INF_AVRSPEED |-> RegDesc(101, 1, 2, "LE16", "div10"),
      NB_INF_VER_BMS2 |-> RegDesc(102, 1, 2, "LE16", "none"),
      NB_INF_VER_BLE |-> RegDesc(104, 1, 2, "version", "none"),
      NB_CTL_LIMIT_SPD |-> RegDesc(114, 1, 2, "LES16", "div10"),
      NB_CTL_NOMALSPEED |-> RegDesc(115, 1, 2, "LES16", "div10"),
      NB_CTL_LITSPEED |-> RegDesc(116, 1, 2, "LES16", "div10"),
      NB_CTL_WORKMODE |-> RegDesc(117, 1, 2, "op_mode", "none"),
      NB_CTL_KERS |-> RegDesc(123, 1, 2, "kers_level", "none"),
      NB_CTL_CRUISE |-> RegDesc(124, 1, 2, "LE16", "none"),
      NB_CTL_TAIL_LIGHT |-> RegDesc(125, 1, 2, "LE16", "none"),
      NB_SINGLE_MIL |-> RegDesc(185, 1, 2, "LE16", "div100"),
      NB_SINGLE_RUN_TIM |-> RegDesc(186, 1, 2, "LE16", "hours"),
      NB_POWER |-> RegDesc(186, 1, 2, "LE16", "none") ]

CtrlIdx == DOMAIN CTRL_TABLE

BATT_TABLE ==
    [ BAT_SN |-> RegDesc(16, 7, 2, "hex", "none"),
      BAT_SW_VER |-> RegDesc(23, 1, 2, "LE16", "none"),
      BAT_CAPACITY |-> RegDesc(24, 1, 2, "LE16", "none"),
      BAT_OVERFLOW_TIMES |-> RegDesc(31, 1, 2, "LE16", "low"),
      BAT_OVERDISCHARGE_TIMES |-> RegDesc(31, 1, 2, "LE16", "high"),
      BAT_REMAINING_CAP |-> RegDesc(49, 1, 2, "LE16", "none"),
      BAT_REMAINING_CAP_PERCENT |-> RegDesc(50, 1, 2, "LE16", "none"),
      BAT_CURRENT_CUR |-> RegDesc(51, 1, 2, "LES16", "div100"),
      BAT_VOLTAGE_CUR |-> RegDesc(52, 1, 2, "LE16", "div100"),
      BAT_TEMP_CUR1 |-> RegDesc(53, 1, 2, "LE16", "low20"),
      BAT_TEMP_CUR2 |-> RegDesc(53, 1, 2, "LE16", "high20"),
      BAT_BALANCE_STATU |-> RegDesc(54, 1, 2, "LE16", "none"),
      BAT_ODIS_STATE |-> RegDesc(55, 1, 2, "LE16", "none"),
      BAT_OCHG_STATE |-> RegDesc(56, 1, 2, "LE16", "none"),
      BAT_HEALTHY |-> RegDesc(59, 1, 2, "LE16", "none") ]

BmsIdx == DOMAIN BATT_TABLE

get_register_desc(index) ==
    IF index \in CtrlIdx THEN CTRL_TABLE[index] ELSE BATT_TABLE[index]

\* bytes(data).decode() raises UnicodeDecodeError unless data is UTF-8
RECURSIVE Utf8(_)
Utf8(data) ==
    IF data = << >> THEN TRUE
    ELSE LET b == data[1]
             n == CASE b < 128 -> 0
                    [] b \in 194..223 -> 1
                    [] b \in 224..239 -> 2
                    [] b \in 240..244 -> 3
                    [] OTHER -> -1
             lo == CASE b = 224 -> 160 [] b = 240 -> 144 [] OTHER -> 128
             hi == CASE b = 237 -> 159 [] b = 244 -> 143 [] OTHER -> 191
         IN  /\ n >= 0
             /\ Len(data) > n
             /\ n >= 1 => data[2] \in lo..hi
             /\ \A i \in 3..(n + 1) : data[i] \in 128..191
             /\ Utf8(Drop(data, n + 1))

\* the str, written as its UTF-8 bytes
unpack_string(data) == data

\* hexlify(bytes(data)).upper().decode(), as the values of its digits
unpack_hex(data) ==
    [ i \in 1..(2 * Len(data)) |->
        IF i % 2 = 1 THEN data[(i + 1) \div 2] \div 16
        ELSE data[i \div 2] % 16 ]

unpack_LE16(data) == data[2] * 256 + data[1]

\* unpack("<h", bytes(data))[0]
unpack_LES16(data) ==
    LET word == unpack_LE16(data)
    IN  IF word >= 32768 THEN word - 65536 ELSE word

unpack_LE16_bitfield_bool(data, pos) ==
    (unpack_LE16(data) \div (2 ^ pos)) % 2 = 1

\* OperationMode(value), by name; ValueError for another value
OperationMode == << "NORMAL", "ECO", "SPORT" >>

\* KersLevel(value), by name; ValueError for another value
KersLevel == << "OFF", "MEDIUM", "STRONG" >>

unpack_U32_from2LE16(data) ==
    unpack_LE16(Take(data, 2)) + unpack_LE16(Drop(data, 2)) * 65536

\* "{val >> 8}.{(val >> 4) & 0x0F}.{val & 0x0F}" as its three numbers
unpack_version(data) ==
    LET val == unpack_LE16(data)
    IN  << val \div 256, (val \div 16) % 16, val % 16 >>

\* the q below 30 for which round((100 * q + 50) / 1000, 1) is the upper
\* tenth: the double x / 1000 lies above the middle, or on it with q odd
HalfUp == { 0, 4, 5, 6, 7, 10, 13, 15, 17, 18, 23, 24, 27, 28, 29 }

\* round(x / 1000, 1), as a number of tenths: the nearest tenth, and for
\* an x in the middle of two tenths the one of HalfUp (for x < 3000)
ScaleKm(x) ==
    LET q == x \div 100
        r == x % 100
    IN  IF r < 50 THEN q
        ELSE IF r > 50 THEN q + 1
        ELSE IF q \in HalfUp THEN q + 1 ELSE q

\* round(x / 3600, 1), as a number of tenths: the nearest tenth; x / 3600
\* in the middle of two tenths is the double (q + 0.5) / 10 of ScaleKm
\* (for x < 10800)
ScaleHours(x) ==
    LET q == x \div 360
        r == x % 360
    IN  IF r < 180 THEN q
        ELSE IF r > 180 THEN q + 1
        ELSE IF q \in HalfUp THEN q + 1 ELSE q

\* the length "assert len(data) == ..." of the unpacker asks for, -1 if it
\* has no assert
AssertedLen(unpacker) ==
    CASE unpacker \in { "string", "hex" } -> -1
      [] unpacker = "U32_from2LE16" -> 4
      [] OTHER -> 2

\* reg.scaler(x); a quotient x / d is written << x, d >>
Scaled(scaler, x) ==
    CASE scaler = "div100" -> << x, 100 >>
      [] scaler = "div10" -> << x, 10 >>
      [] scaler = "km" -> << ScaleKm(x) >>
      [] scaler = "hours" -> << ScaleHours(x) >>
      [] scaler = "low" -> << x % 256 >>
      [] scaler = "high" -> << (x \div 256) % 256 >>
      [] scaler = "low20" -> << (x % 256) - 20 >>
      [] scaler = "high20" -> << ((x \div 256) % 256) - 20 >>

\* reg.unpacker(data), then reg.scaler; the asserts of the decoders
Decode(desc, data) ==
    LET u == desc.unpacker
        bits == [ bit0 |-> 0, bit1 |-> 1, bit2 |-> 2, bit9 |-> 9,
                  bit11 |-> 11 ]
    IN  IF AssertedLen(u) # -1 /\ Len(data) # AssertedLen(u)
        THEN [ tag |-> "AssertionError", value |-> << >> ]
        ELSE IF u = "string" /\ ~ Utf8(data)
        THEN [ tag |-> "UnicodeDecodeError", value |-> << >> ]
        ELSE IF u \in { "op_mode", "kers_level" } /\ unpack_LE16(data) > 2
        THEN [ tag |-> "ValueError", value |-> << >> ]
        ELSE LET unpacked ==
                    CASE u = "string" -> unpack_string(data)
                      [] u = "hex" -> unpack_hex(data)
                      [] u = "version" -> unpack_version(data)
                      [] u = "LE16" -> << unpack_LE16(data) >>
                      [] u = "LES16" -> << unpack_LES16(data) >>
                      [] u = "U32_from2LE16" ->
                            << unpack_U32_from2LE16(data) >>
                      [] u = "op_mode" ->
                            << OperationMode[unpack_LE16(data) + 1] >>
                      [] u = "kers_level" ->
                            << KersLevel[unpack_LE16(data) + 1] >>
                      [] OTHER ->
                            << unpack_LE16_bitfield_bool(data, bits[u]) >>
             IN  [ tag |-> "value",
                   value |-> IF desc.scaler = "none" THEN unpacked
                             ELSE Scaled(desc.scaler, unpacked[1]) ]

----------------------------------------------------------------------------
(* The packets of the handshake and of read_reg *)

\* NinebotClient.APP_KEY = secrets.token_bytes(16)
APP_KEY == [ i \in 1..16 |-> 16 + i ]

InitRequest == Packet("PC", "ES_BLE", "INIT", 0, << >>)

PingRequest == Packet("PC", "ES_BLE", "PING", 0, APP_KEY)

PairRequest == Packet("PC", "ES_BLE", "PAIR", 0, received_serial)

ReadRequest(index, i) ==
    LET desc == get_register_desc(index)
        target == IF index \in CtrlIdx THEN "ES_CONTROL" ELSE "ES_BATT"
    IN  Packet("PC", target, "READ", desc.index_start + i,
               << desc.read_len >>)

----------------------------------------------------------------------------
(* The device: the notifications it may send *)

DeviceKey == [ i \in 1..16 |-> 170 ]

DeviceSerial == << 65, 66, 67, 68, 69, 70 >>

\* what the device sends during the handshake
HandshakePackets ==
    { Packet("ES_BLE", "PC", "INIT", 0, DeviceKey \o DeviceSerial),
      Packet("ES_BLE", "PC", "PING", 0, << >>),
      Packet("ES_BLE", "PC", "PING", 1, << >>),
      Packet("ES_BLE", "PC", "PAIR", 1, << >>) }

\* what the device sends while registers are read
ReadPackets ==
    { Packet("ES_CONTROL", "PC", "READ_ACK", 26, << 52, 18 >>),
      Packet("ES_CONTROL", "PC", "READ_ACK", 41, << 232, 3 >>),
      Packet("ES_CONTROL", "PC", "READ_ACK", 42, << 0, 0 >>),
      Packet("ES_BATT", "PC", "READ_ACK", 26, << 52, 18 >>),
      Packet("ES_BATT", "PC", "READ_ACK", 23, << 5, 1 >>),
      Packet("ES_BLE", "PC", "PING", 1, << >>) }

\* the packets request() is called with directly
DirectRequests == { Packet("PC", "ES_BLE", "PING", 0, APP_KEY) }

DeviceNames == { "None", "Ninebot" }

\* the registers the caller reads while the device sends ReadPackets
ReadIdx == { "NB_FW_VER", "NB_INF_RID_MIL", "BAT_SW_VER" }

----------------------------------------------------------------------------
(* History of the running call, for stating the properties *)

NoHist ==
    [ device |-> "None",     \* device.name given to connect()
      log |-> << >>,         \* cipher calls and commands sent by the running
                             \* connect(), read_reg() or request(), in
                             \* order, a repeated event written once
      gotInit |-> FALSE,     \* request(INIT) has returned initReply
      initReply |-> NoPacket,
      firstPing |-> -1,      \* data_index of the reply to the first PING
      loopIter |-> 0,        \* pairing-loop iterations finished (0, 1, many)
      loopTimedOut |-> FALSE,  \* a receive() of the pairing loop timed out
      exitVia |-> "none",    \* how the pairing loop was left
      devPairs |-> 0,        \* PAIR packets the device sent (0, 1, many)
      confirmed |-> FALSE,   \* the PAIR confirm request dequeued a PAIR reply
      paired |-> FALSE,      \* connect() has returned
      sends |-> 0,           \* request(): times S was sent in this call
      timeouts |-> 0,        \* request(): receive() timeouts in this call
      dropped |-> "none",    \* request(): what this call dequeued and
                             \*   dropped: "index" a packet that matched but
                             \*   for its data_index, else "other"
      reply |-> NoPacket,    \* request(): the packet it is returning
      replyLate |-> FALSE,   \*   was dequeued after the deadline had passed
      stale |-> 0,           \* request(): packets at the head of the queue
                             \*   that were put before S was first sent
      replyStale |-> FALSE,  \*   the packet it is returning was one of them
      index |-> "none",      \* read_reg(): the register it was called with,
      reads |-> << >>,       \*   the packets it has called request() with,
      replies |-> << >> ]    \*   and the payloads request() has returned

\* the history once a request() call is over
Cleared(h) ==
    [ h EXCEPT !.sends = 0, !.timeouts = 0, !.dropped = "none",
               !.reply = NoPacket, !.replyLate = FALSE,
                 !.stale = 0, !.replyStale = FALSE ]

\* request() drops the dequeued packet p
Dropped(h, p) ==
    [ h EXCEPT !.dropped =
        IF /\ p.source = request.target
           /\ p.target = request.source
           /\ p.command = (IF request.command = "READ" THEN "READ_ACK"
                           ELSE request.command)
        THEN "index"
        ELSE IF @ = "index" THEN "index" ELSE "other" ]

Logged(h, event) ==
    IF h.log # << >> /\ h.log[Len(h.log)] = event
    THEN h ELSE [ h EXCEPT !.log = Append(@, event) ]

\* first position of event in the log, 0 if it is not there
Pos(event) ==
    IF \E i \in 1..Len(hist.log) : hist.log[i] = event
    THEN CHOOSE i \in 1..Len(hist.log) :
            /\ hist.log[i] = event
            /\ \A j \in 1..(i - 1) : hist.log[j] # event
    ELSE 0

----------------------------------------------------------------------------
(* request(): the match rule *)

\* command_replies.get(request.command, request.command)
CommandReplies(command) == IF command = "READ" THEN "READ_ACK" ELSE command

\* (variant: the data_index is not compared)
MatchesAnyIndex(S, R) ==
    /\ R.source = S.target
    /\ R.target = S.source
    /\ R.command = CommandReplies(S.command)

\* (variant: the data_index is compared for every command)
MatchesStrictIndex(S, R) ==
    /\ R.source = S.target
    /\ R.target = S.source
    /\ R.command = CommandReplies(S.command)
    /\ R.data_index = S.data_index

Matches(S, R) ==
    /\ R.source = S.target
    /\ R.target = S.source
    /\ R.command = CommandReplies(S.command)
    /\ (CommandValue[S.command] > 5 \/ R.data_index = S.data_index)

\* (variant: the loops do not look at the deadline)
BeforeDeadlineIgnored == TRUE

\* request(): "time.time() < deadline", of the outer and of the inner loop
BeforeDeadline == reqLeft > 0

----------------------------------------------------------------------------
(* Results of a call *)

NoResult == [ tag |-> "none", value |-> << >> ]

Raised(error) == [ tag |-> error, value |-> << >> ]

----------------------------------------------------------------------------
(* request(S): the deadline is set and S is sent for the first time (the   *)
(* outer loop is entered at once); the caller then waits for the write.    *)

StartRequest(S, site, h) ==
    /\ request' = S
    /\ reqCaller' = site
    /\ reqLeft' = RequestTimeout
    /\ rcvLeft' = 0
    /\ sleepLeft' = 0
    /\ pc' = "req_drain"
    /\ hist' = [ Logged(h, S.command) EXCEPT
                   !.sends = 1, !.timeouts = 0, !.dropped = "none",
                   !.reply = NoPacket, !.replyLate = FALSE,
                   !.stale = Len(receive_queue), !.replyStale = FALSE ]

\* (variant: read_reg returns what it has accumulated)
RequestFailsPartial(h) ==
    /\ result' = IF reqCaller = "read"
                 THEN [ tag |-> "value", value |-> regData ]
                 ELSE Raised("TimeoutError")
    /\ pc' = IF reqCaller \in { "read", "call" } THEN "ready" ELSE "failed"
    /\ reg' = "none"
    /\ regI' = 0
    /\ regData' = << >>
    /\ reqLeft' = 0
    /\ rcvLeft' = 0
    /\ hist' = [ h EXCEPT !.reply = NoPacket, !.replyLate = FALSE,
                 !.stale = 0, !.replyStale = FALSE ]
    /\ UNCHANGED << crypto, reqCaller, request, sleepLeft, resp,
                    received_key, received_serial >>

\* request() raises TimeoutError("Did not get a response ..."): connect()
\* and read_reg() let it through
RequestFails(h) ==
    /\ result' = Raised("TimeoutError")
    /\ pc' = IF reqCaller \in { "read", "call" } THEN "ready" ELSE "failed"
    /\ reg' = "none"
    /\ regI' = 0
    /\ regData' = << >>
    /\ reqLeft' = 0
    /\ rcvLeft' = 0
    /\ hist' = [ h EXCEPT !.reply = NoPacket, !.replyLate = FALSE,
                 !.stale = 0, !.replyStale = FALSE ]
    /\ UNCHANGED << crypto, reqCaller, request, sleepLeft, resp,
                    received_key, received_serial >>

\* (variant: the whole payload of the INIT reply is taken as the key)
AfterInitWholeData(p, h) ==
    /\ resp' = p
    /\ received_key' = p.data_segment
    /\ received_serial' = Drop(p.data_segment, 16)
    /\ crypto' = [ crypto EXCEPT !.ble_data = p.data_segment ]
    /\ StartRequest(PingRequest, "ping",
          Logged([ h EXCEPT !.gotInit = TRUE, !.initReply = p ],
                 "set_ble_data"))
    /\ UNCHANGED << reg, regI, regData, result >>

\* connect(), after request(INIT) returned p: set_ble_data, request(PING)
AfterInit(p, h) ==
    /\ resp' = p
    /\ received_key' = Take(p.data_segment, 16)
    /\ received_serial' = Drop(p.data_segment, 16)
    /\ crypto' = [ crypto EXCEPT !.ble_data = Take(p.data_segment, 16) ]
    /\ StartRequest(PingRequest, "ping",
          Logged([ h EXCEPT !.gotInit = TRUE, !.initReply = p ],
                 "set_ble_data"))
    /\ UNCHANGED << reg, regI, regData, result >>

\* connect(), after request(PING) returned p: the pairing loop is entered
\* when p.data_index is 0, else request(PAIR)
AfterPing(p, h) ==
    /\ resp' = p
    /\ IF p.data_index = 0
       THEN /\ pc' = "pair_sleep"
            /\ sleepLeft' = PairSleep
            /\ reqLeft' = 0
            /\ rcvLeft' = 0
            /\ hist' = [ Cleared(h) EXCEPT !.firstPing = p.data_index ]
            /\ UNCHANGED << request, reqCaller >>
       ELSE StartRequest(PairRequest, "pair",
               [ h EXCEPT !.firstPing = p.data_index, !.exitVia = "skip" ])
    /\ UNCHANGED << crypto, received_key, received_serial, reg, regI,
                    regData, result >>

\* connect(), after the last request(PAIR) returned: connect() returns
AfterPair(p, h) ==
    /\ pc' = "ready"
    /\ result' = [ tag |-> "connected", value |-> << >> ]
    /\ reqLeft' = 0
    /\ rcvLeft' = 0
    /\ hist' = [ Cleared(h) EXCEPT !.paired = TRUE ]
    /\ UNCHANGED << crypto, reqCaller, request, sleepLeft, resp,
                    received_key, received_serial, reg, regI, regData >>

\* (variant: the reply's payload is put before the accumulated data)
AfterReadPrepends(p, h) ==
    LET desc == get_register_desc(reg)
        data == p.data_segment \o regData
        got == [ h EXCEPT !.replies = Append(@, p.data_segment) ]
    IN  /\ IF regI + 1 < desc.index_len
           THEN /\ regI' = regI + 1
                /\ regData' = data
                /\ StartRequest(ReadRequest(reg, regI + 1), "read",
                      [ got EXCEPT
                          !.reads = Append(@, ReadRequest(reg, regI + 1)) ])
                /\ UNCHANGED << reg, result >>
           ELSE /\ result' = Decode(desc, data)
                /\ pc' = "ready"
                /\ reg' = "none"
                /\ regI' = 0
                /\ regData' = << >>
                /\ reqLeft' = 0
                /\ rcvLeft' = 0
                /\ hist' = [ got EXCEPT !.reply = NoPacket,
                                        !.replyLate = FALSE,
                 !.stale = 0, !.replyStale = FALSE ]
                /\ UNCHANGED << reqCaller, request, sleepLeft >>
        /\ UNCHANGED << crypto, resp, received_key, received_serial >>

\* read_reg(), after request(READ) returned p: data.extend, then the next
\* index, or the unpacker and the scaler
AfterRead(p, h) ==
    LET desc == get_register_desc(reg)
        data == regData \o p.data_segment
        got == [ h EXCEPT !.replies = Append(@, p.data_segment) ]
    IN  /\ IF regI + 1 < desc.index_len
           THEN /\ regI' = regI + 1
                /\ regData' = data
                /\ StartRequest(ReadRequest(reg, regI + 1), "read",
                      [ got EXCEPT
                          !.reads = Append(@, ReadRequest(reg, regI + 1)) ])
                /\ UNCHANGED << reg, result >>
           ELSE /\ result' = Decode(desc, data)
                /\ pc' = "ready"
                /\ reg' = "none"
                /\ regI' = 0
                /\ regData' = << >>
                /\ reqLeft' = 0
                /\ rcvLeft' = 0
                /\ hist' = [ got EXCEPT !.reply = NoPacket,
                                        !.replyLate = FALSE,
                 !.stale = 0, !.replyStale = FALSE ]
                /\ UNCHANGED << reqCaller, request, sleepLeft >>
        /\ UNCHANGED << crypto, resp, received_key, received_serial >>

\* a direct call of request() returns p
AfterCall(p, h) ==
    /\ pc' = "ready"
    /\ result' = [ tag |-> "packet", value |-> << >> ]
    /\ reqLeft' = 0
    /\ rcvLeft' = 0
    /\ hist' = [ h EXCEPT !.replyLate = FALSE,
                 !.stale = 0, !.replyStale = FALSE ]
    /\ UNCHANGED << crypto, reqCaller, request, sleepLeft, resp,
                    received_key, received_serial, reg, regI, regData >>

\* request() returns the reply to its call site
RequestReturn ==
    /\ pc = "req_return"
    /\ CASE reqCaller = "init" -> AfterInit(hist.reply, hist)
         [] reqCaller = "ping" -> AfterPing(hist.reply, hist)
         [] reqCaller = "pair" -> AfterPair(hist.reply, hist)
         [] reqCaller = "read" -> AfterRead(hist.reply, hist)
         [] OTHER -> AfterCall(hist.reply, hist)
    /\ UNCHANGED << receive_queue, receive_buffer, client, rcvCaller,
                    cbError, rx, tx, fr, ev, proc >>

----------------------------------------------------------------------------
(* connect() *)

\* connect(device): set_name, then establish_connection is awaited
\* connect(device) from its first line to establish_connection
ConnectCall(name) ==
    /\ crypto' = [ crypto EXCEPT
                     !.name = IF name = "None" THEN "Unnamed" ELSE name ]
    /\ hist' = Logged([ NoHist EXCEPT !.device = name ], "set_name")
    /\ pc' = "establish"
    /\ UNCHANGED << receive_queue, receive_buffer, client, reqCaller,
                    rcvCaller, request, reqLeft, rcvLeft, sleepLeft, resp,
                    received_key, received_serial, reg, regI, regData,
                    result, cbError, rx, tx, fr, ev, proc >>

Connect(name) ==
    /\ pc = "idle"
    /\ ConnectCall(name)

\* the link is up and start_notify done: request(INIT)
Established ==
    /\ pc = "establish"
    /\ client' = "BleakClient"
    /\ StartRequest(InitRequest, "init", hist)
    /\ UNCHANGED << crypto, receive_queue, receive_buffer, rcvCaller, resp,
                    received_key, received_serial, reg, regI, regData,
                    result, cbError, rx, tx, fr, ev, proc >>

----------------------------------------------------------------------------
(* request(): the inner loop *)

\* the write of S is done; "while time.time() < deadline": receive() is
\* called, or the inner and then the outer TimeoutError is raised
ReqDrain ==
    /\ pc = "req_drain"
    /\ IF BeforeDeadline
       THEN /\ pc' = "receive"
            /\ rcvCaller' = "request"
            /\ rcvLeft' = ReceiveTimeout
            /\ UNCHANGED << crypto, reqCaller, request, reqLeft, sleepLeft,
                            resp, received_key, received_serial, reg, regI,
                            regData, result, hist >>
       ELSE /\ RequestFails(hist)
            /\ UNCHANGED rcvCaller
    /\ UNCHANGED << receive_queue, receive_buffer, client, cbError, rx, tx, fr, ev, proc >>

\* receive() called by request() returns a packet: it is the reply, or it
\* is dropped and receive() is called again, or the deadline has passed
RequestGet ==
    /\ pc = "receive"
    /\ rcvCaller = "request"
    /\ rcvLeft > 0
    /\ receive_queue # << >>
    /\ LET recv_packet == Head(receive_queue)
           h == [ hist EXCEPT
                    !.confirmed = @ \/ ( /\ reqCaller = "pair"
                                         /\ recv_packet.source = "ES_BLE"
                                         /\ recv_packet.target = "PC"
                                         /\ recv_packet.command = "PAIR" ),
                    !.stale = Dec(@) ]
       IN  /\ receive_queue' = Tail(receive_queue)
           /\ IF Matches(request, recv_packet)
              THEN /\ pc' = "req_return"
                   /\ rcvLeft' = 0
                   /\ hist' = [ h EXCEPT !.reply = recv_packet,
                                         !.replyLate = (reqLeft = 0),
                                         !.stale = 0,
                                         !.replyStale = (hist.stale > 0) ]
                   /\ UNCHANGED << crypto, reqCaller, request, reqLeft,
                                   sleepLeft, resp, received_key,
                                   received_serial, reg, regI, regData,
                                   result >>
              ELSE IF BeforeDeadline
              THEN /\ rcvLeft' = ReceiveTimeout
                   /\ hist' = Dropped(h, recv_packet)
                   /\ UNCHANGED << crypto, pc, reqCaller, request, reqLeft,
                                   sleepLeft, resp, received_key,
                                   received_serial, reg, regI, regData,
                                   result >>
              ELSE RequestFails(Dropped(h, recv_packet))
    /\ UNCHANGED << receive_buffer, client, rcvCaller, cbError, rx, tx, fr, ev, proc >>

\* (variant: after a timeout S is not sent again)
RequestRetryNoResend ==
    /\ pc = "receive"
    /\ rcvCaller = "request"
    /\ rcvLeft = 0
    /\ LET h == [ hist EXCEPT !.timeouts = @ + 1 ]
       IN  IF BeforeDeadline
           THEN /\ pc' = "req_drain"
                /\ hist' = h
                /\ UNCHANGED << crypto, reqCaller, request, reqLeft, rcvLeft,
                                sleepLeft, resp, received_key,
                                received_serial, reg, regI, regData, result >>
           ELSE RequestFails(h)
    /\ UNCHANGED << receive_queue, receive_buffer, client, rcvCaller,
                    cbError, rx, tx, fr, ev, proc >>

\* receive() called by request() raises TimeoutError: "Retrying request",
\* S is sent again if the deadline has not passed
RequestRetry ==
    /\ pc = "receive"
    /\ rcvCaller = "request"
    /\ rcvLeft = 0
    /\ LET h == [ hist EXCEPT !.timeouts = @ + 1 ]
       IN  IF BeforeDeadline
           THEN /\ pc' = "req_drain"
                /\ hist' = [ Logged(h, request.command) EXCEPT !.sends = @ + 1 ]
                /\ UNCHANGED << crypto, reqCaller, request, reqLeft, rcvLeft,
                                sleepLeft, resp, received_key,
                                received_serial, reg, regI, regData, result >>
           ELSE RequestFails(h)
    /\ UNCHANGED << receive_queue, receive_buffer, client, rcvCaller,
                    cbError, rx, tx, fr, ev, proc >>

----------------------------------------------------------------------------
(* connect(): the pairing loop *)

\* the sleep is over: PAIR is sent and receive() is called
PairWake ==
    /\ pc = "pair_sleep"
    /\ sleepLeft = 0
    /\ pc' = "receive"
    /\ rcvCaller' = "loop"
    /\ rcvLeft' = ReceiveTimeout
    /\ hist' = Logged(hist, "PAIR")
    /\ UNCHANGED << crypto, receive_queue, receive_buffer, client, reqCaller,
                    request, reqLeft, sleepLeft, resp, received_key,
                    received_serial, reg, regI, regData, result, cbError,
                    rx, tx, fr, ev, proc >>

\* the two tests on resp after the try block, and what follows them
PairCheck(r, h) ==
    IF r.command = "PING" /\ r.data_index = 1
    THEN /\ crypto' = [ crypto EXCEPT !.app_data = APP_KEY ]
         /\ StartRequest(PairRequest, "pair",
               Logged([ h EXCEPT !.exitVia = "PING" ], "set_app_data"))
    ELSE IF r.command = "PAIR" /\ r.data_index = 1
    THEN /\ StartRequest(PairRequest, "pair", [ h EXCEPT !.exitVia = "PAIR" ])
         /\ UNCHANGED crypto
    ELSE /\ pc' = "pair_sleep"
         /\ sleepLeft' = PairSleep
         /\ rcvLeft' = 0
         /\ hist' = [ h EXCEPT !.loopIter = Min(@ + 1, 2) ]
         /\ UNCHANGED << crypto, reqCaller, request, reqLeft >>

\* receive() called by the loop returns a packet
PairGet ==
    /\ pc = "receive"
    /\ rcvCaller = "loop"
    /\ rcvLeft > 0
    /\ receive_queue # << >>
    /\ receive_queue' = Tail(receive_queue)
    /\ resp' = Head(receive_queue)
    /\ PairCheck(Head(receive_queue), hist)
    /\ UNCHANGED << receive_buffer, client, rcvCaller, received_key,
                    received_serial, reg, regI, regData, result, cbError,
                    rx, tx, fr, ev, proc >>

\* (variant: the TimeoutError is not caught and connect() fails)
PairTimeoutFails ==
    /\ pc = "receive"
    /\ rcvCaller = "loop"
    /\ rcvLeft = 0
    /\ pc' = "failed"
    /\ result' = Raised("TimeoutError")
    /\ hist' = [ hist EXCEPT !.loopTimedOut = TRUE ]
    /\ UNCHANGED << crypto, reqCaller, request, reqLeft, rcvLeft, sleepLeft,
                    receive_queue, receive_buffer, client, rcvCaller, resp,
                    received_key, received_serial, reg, regI, regData,
                    cbError, rx, tx, fr, ev, proc >>

\* receive() called by the loop raises TimeoutError: "pass", resp is kept
PairTimeout ==
    /\ pc = "receive"
    /\ rcvCaller = "loop"
    /\ rcvLeft = 0
    /\ PairCheck(resp, [ hist EXCEPT !.loopTimedOut = TRUE ])
    /\ UNCHANGED << receive_queue, receive_buffer, client, rcvCaller, resp,
                    received_key, received_serial, reg, regI, regData,
                    result, cbError, rx, tx, fr, ev, proc >>

----------------------------------------------------------------------------
(* read_reg() *)

\* read_reg(index) up to its first request()
ReadRegCall(index) ==
    /\ reg' = index
    /\ regI' = 0
    /\ regData' = << >>
    /\ result' = NoResult
    /\ StartRequest(ReadRequest(index, 0), "read",
                    [ hist EXCEPT !.log = << >>, !.index = index,
                                  !.reads = << ReadRequest(index, 0) >>,
                                  !.replies = << >> ])
    /\ UNCHANGED << crypto, receive_queue, receive_buffer, client, rcvCaller,
                    resp, received_key, received_serial, cbError, rx, tx, fr, ev, proc >>

ReadReg(index) ==
    /\ pc = "ready"
    /\ ReadRegCall(index)

\* request(S) is called directly
Request(S) ==
    /\ pc = "ready"
    /\ result' = NoResult
    /\ StartRequest(S, "call",
                    [ hist EXCEPT !.log = << >>, !.index = "none",
                                  !.reads = << >>, !.replies = << >> ])
    /\ UNCHANGED << crypto, receive_queue, receive_buffer, client, rcvCaller,
                    resp, received_key, received_serial, reg, regI, regData,
                    cbError, rx, tx, fr, ev, proc >>

----------------------------------------------------------------------------
(* The environment *)

\* the device sends the frame of p in one notification
Notify(p) ==
    /\ client = "BleakClient"
    /\ Len(receive_queue) < MaxQueue
    /\ ReadCallback(Encrypt(crypto, Pack(p)))
    /\ hist' = [ hist EXCEPT
                   !.devPairs = IF p.command = "PAIR" THEN Min(@ + 1, 2)
                                ELSE @ ]
    /\ UNCHANGED << crypto, client, pc, reqCaller, rcvCaller, request,
                    reqLeft, rcvLeft, sleepLeft, resp, received_key,
                    received_serial, reg, regI, regData, result, rx, tx, fr, ev, proc >>

\* one tick of time passes
Tick ==
    /\ reqLeft > 0 \/ rcvLeft > 0 \/ sleepLeft > 0
    /\ reqLeft' = Dec(reqLeft)
    /\ rcvLeft' = Dec(rcvLeft)
    /\ sleepLeft' = Dec(sleepLeft)
    /\ UNCHANGED << crypto, receive_queue, receive_buffer, client, pc,
                    reqCaller, rcvCaller, request, resp, received_key,
                    received_serial, reg, regI, regData, result, cbError,
                    hist, rx, tx, fr, ev, proc >>

----------------------------------------------------------------------------
(* The session: a client is constructed, connect() and read_reg() run *)

\* no send() and no disconnect() was called
NoTx ==
    [ stage |-> "none",    \* "send", "sent", "raised": the last send()
      back |-> "ready",    \* where the caller goes on after the call
      msg |-> << >>,       \* send(): msg
      msg_len |-> 0,       \* send(): msg_len
      byte_idx |-> 0,      \* send(): byte_idx
      tmp_len |-> 0,       \* send(): tmp_len
      attempt |-> 0,       \* retries of send() made by its decorator
      writes |-> << >>,    \* the buffers given to write_gatt_char, in order
      done |-> 0,          \* how many of these writes have returned or
                           \*   raised
      overlap |-> FALSE,   \* a write was begun before the one before it
                           \*   had completed
      held |-> FALSE,      \* disconnect() was called with self.client set,
      closed |-> FALSE ]   \*   and it has returned or raised

\* the framer was not called
NoFr ==
    [ stage |-> "none", kind |-> "none", packet |-> NoPacket, data |-> << >>,
      out |-> [ tag |-> "None", packet |-> NoPacket ],
      back |-> << >> ]     \* pack() of the packet unpack returned

\* no handler task is waiting
NoEv ==
    [ ready |-> << >>,     \* tasks ready to run, first to run first: a
                           \*   handler's task not yet started ("start"),
                           \*   or a handler woken in put ("wake")
      putters |-> << >>,   \* packets of the handlers suspended in
                           \*   receive_queue.put, longest waiting first
      sent |-> 0,          \* notifications the device has sent
      arrived |-> << >>,   \* packets in the order their frames were
                           \*   completed by the handler
      got |-> << >> ]      \* packets in the order receive() returned them

\* the module was imported (the class body has run) and no client is
\* constructed
NoProc ==
    [ APP_KEY |-> APP_KEY,           \* NinebotClient.APP_KEY
      generated |-> << APP_KEY >>,   \* what the calls of secrets.token_bytes
                                     \*   returned, in order
      clients |-> << >> ]            \* the clients, in order of construction

NoRx ==
    [ scen |-> "none", stage |-> "none", frame |-> NoPacket, rest |-> << >>,
      chunks |-> 0, laterMagic |-> FALSE, raised |-> FALSE, junk |-> << >> ]

Init ==
    /\ crypto = NoCrypto
    /\ receive_queue = << >>
    /\ receive_buffer = << >>
    /\ client = "None"
    /\ pc = "idle"
    /\ reqCaller = "none"
    /\ rcvCaller = "none"
    /\ request = NoPacket
    /\ reqLeft = 0
    /\ rcvLeft = 0
    /\ sleepLeft = 0
    /\ resp = NoPacket
    /\ received_key = << >>
    /\ received_serial = << >>
    /\ reg = "none"
    /\ regI = 0
    /\ regData = << >>
    /\ result = NoResult
    /\ cbError = "ok"
    /\ hist = NoHist
    /\ rx = NoRx
    /\ tx = NoTx
    /\ fr = NoFr
    /\ ev = NoEv
    /\ proc = NoProc

Next ==
    \/ \E name \in DeviceNames : Connect(name)
    \/ Established
    \/ ReqDrain
    \/ RequestGet
    \/ RequestRetry
    \/ RequestReturn
    \/ PairWake
    \/ PairGet
    \/ PairTimeout
    \/ \E p \in HandshakePackets : Notify(p)
    \/ Tick

Spec == Init /\ [][Next]_vars

\* the event loop runs a coroutine that can go on, and time passes
FairSpec ==
    /\ Spec
    /\ WF_vars(Tick)
    /\ WF_vars(Established \/ ReqDrain \/ RequestGet \/ RequestRetry
                  \/ RequestReturn \/ PairWake \/ PairGet \/ PairTimeout)

----------------------------------------------------------------------------
(* read_reg() and request() on a session whose connect() has returned *)

ReadInit ==
    /\ crypto \in { [ name |-> "Unnamed", ble_data |-> DeviceKey,
                       app_data |-> a ] : a \in { << >>, APP_KEY } }
    /\ receive_queue = << >>
    /\ receive_buffer \in { << >>,
                             Encrypt(crypto,
                                Pack(Packet("ES_BLE", "PC", "PAIR", 1, << >>))) }
    /\ client = "BleakClient"
    /\ pc = "ready"
    /\ reqCaller = "pair"
    /\ rcvCaller = "request"
    /\ request = Packet("PC", "ES_BLE", "PAIR", 0, DeviceSerial)
    /\ reqLeft = 0
    /\ rcvLeft = 0
    /\ sleepLeft = 0
    /\ resp = Packet("ES_BLE", "PC", "PING", 1, << >>)
    /\ received_key = DeviceKey
    /\ received_serial = DeviceSerial
    /\ reg = "none"
    /\ regI = 0
    /\ regData = << >>
    /\ result = [ tag |-> "connected", value |-> << >> ]
    /\ cbError = "ok"
    /\ hist = [ NoHist EXCEPT !.paired = TRUE ]
    /\ rx = NoRx
    /\ tx = NoTx
    /\ fr = NoFr
    /\ ev = NoEv
    /\ proc = NoProc

ReadNext ==
    \/ \E index \in ReadIdx : ReadReg(index)
    \/ \E S \in DirectRequests : Request(S)
    \/ ReqDrain
    \/ RequestGet
    \/ RequestRetry
    \/ RequestReturn
    \/ \E p \in ReadPackets : Notify(p)
    \/ Tick

SpecRead == ReadInit /\ [][ReadNext]_vars

FairSpecRead ==
    /\ SpecRead
    /\ WF_vars(Tick)
    /\ WF_vars(ReqDrain \/ RequestGet \/ RequestRetry \/ RequestReturn)

----------------------------------------------------------------------------
(* The catalog: read_reg() is called once for a register of either table,  *)
(* and the device answers every READ with a READ_ACK for the address asked *)
(* that carries the read_len bytes asked for.                              *)

\* the bytes of the device's answers
CatBytes == { 0, 65, 255 }

\* the payloads of the device's answers to READ request S of register
\* index: the high word of a two-register value stays below 2^15, so that
\* the value stays below 2^31
CatPayloads(index, S) ==
    LET desc == get_register_desc(index)
        high == desc.unpacker = "U32_from2LE16"
                   /\ S.data_index > desc.index_start
    IN  { [ i \in 1..S.data_segment[1] |-> b ] :
             b \in IF high THEN CatBytes \ { 255 } ELSE CatBytes }

CatInit ==
    /\ ReadInit
    /\ crypto.app_data = APP_KEY
    /\ receive_buffer = << >>

\* read_reg(index) on the new session
CatRead(index) ==
    /\ hist.index = "none"
    /\ ReadReg(index)

\* the device answers the READ that request() is waiting on
CatAnswer ==
    /\ pc = "receive"
    /\ reqCaller = "read"
    /\ receive_queue = << >>
    /\ \E seg \in CatPayloads(reg, request) :
          Notify(Packet(request.target, request.source, "READ_ACK",
                        request.data_index, seg))

CatNext ==
    \/ \E index \in CtrlIdx \cup BmsIdx : CatRead(index)
    \/ ReqDrain
    \/ RequestGet
    \/ RequestReturn
    \/ CatAnswer

SpecCatalog == CatInit /\ [][CatNext]_vars

----------------------------------------------------------------------------
(* send() and disconnect(), on a session whose connect() has returned, on  *)
(* one whose connect() failed after the link was up, and on a client that  *)
(* never connected.  The link may drop at any time.                        *)

\* the longest payload send() is called with
MaxPayload == 35

\* "tmp_len = msg_len if msg_len <= 20 else 20"
ChunkLen == 20

\* attempts of retry_bluetooth_connection_error()
SendAttempts == 2

SendPackets ==
    { Packet("PC", "ES_BLE", "PING", 0, [ i \in 1..n |-> i ]) :
         n \in 0..MaxPayload }

IsConnected == client \in { "BleakClient", "Unsubscribed" }

\* (variant: the slice is cut at byte_idx + tmp_len - 1)
NextWriteShort(t) ==
    LET tmp_len == IF t.msg_len <= ChunkLen THEN t.msg_len ELSE ChunkLen
        buf == SubSeq(t.msg, t.byte_idx + 1,
                      Min(t.byte_idx + tmp_len - 1, Len(t.msg)))
    IN  [ t EXCEPT !.tmp_len = tmp_len,
                   !.writes = Append(@, buf),
                   !.overlap = @ \/ (Len(t.writes) > t.done) ]

\* the body of the while loop up to its await: the slice
\* msg[byte_idx : byte_idx + tmp_len] is given to write_gatt_char
NextWrite(t) ==
    LET tmp_len == IF t.msg_len <= ChunkLen THEN t.msg_len ELSE ChunkLen
        buf == SubSeq(t.msg, t.byte_idx + 1,
                      Min(t.byte_idx + tmp_len, Len(t.msg)))
    IN  [ t EXCEPT !.tmp_len = tmp_len,
                   !.writes = Append(@, buf),
                   !.overlap = @ \/ (Len(t.writes) > t.done) ]

\* send() from its first line to the first await, or to its end
SendBody(packet, t) ==
    LET msg == Encrypt(crypto, Pack(packet))
        t0 == [ t EXCEPT !.msg = msg, !.msg_len = Len(msg), !.byte_idx = 0 ]
    IN  IF t0.msg_len > 0 THEN [ NextWrite(t0) EXCEPT !.stage = "send" ]
        ELSE [ t0 EXCEPT !.stage = "sent" ]

SendUnchanged ==
    UNCHANGED << crypto, receive_queue, receive_buffer, reqCaller, rcvCaller,
                 request, reqLeft, rcvLeft, sleepLeft, resp, received_key,
                 received_serial, reg, regI, regData, cbError, hist, rx, fr,
                 ev, proc >>

\* send(packet) is called
Send(packet) ==
    /\ pc \in { "idle", "ready", "failed" }
    /\ IF client = "None"
       THEN /\ tx' = [ NoTx EXCEPT !.stage = "raised", !.back = pc,
                                   !.held = tx.held, !.closed = tx.closed ]
            /\ result' = Raised("AssertionError")
            /\ pc' = pc
       ELSE /\ tx' = SendBody(packet, [ NoTx EXCEPT !.back = pc,
                                                    !.held = tx.held,
                                                    !.closed = tx.closed ])
            /\ result' = NoResult
            /\ pc' = "send_write"
    /\ UNCHANGED client
    /\ SendUnchanged

\* write_gatt_char returns: the loop goes on, or send() returns
SendWritten ==
    /\ pc = "send_write"
    /\ IsConnected
    /\ LET t == [ tx EXCEPT !.done = @ + 1,
                            !.msg_len = @ - tx.tmp_len,
                            !.byte_idx = @ + tx.tmp_len ]
       IN  IF t.msg_len > 0
           THEN /\ tx' = NextWrite(t)
                /\ UNCHANGED << pc, result >>
           ELSE /\ tx' = [ t EXCEPT !.stage = "sent" ]
                /\ pc' = tx.back
                /\ result' = [ tag |-> "sent", value |-> << >> ]
    /\ UNCHANGED client
    /\ SendUnchanged

\* write_gatt_char raises on the dropped link: the decorator calls send()
\* again, or lets the error through after its last attempt
SendWriteFails ==
    /\ pc = "send_write"
    /\ ~ IsConnected
    /\ IF tx.attempt + 1 < SendAttempts
       THEN /\ tx' = [ NextWrite([ tx EXCEPT !.msg_len = Len(tx.msg),
                                             !.byte_idx = 0,
                                             !.done = Len(tx.writes) ])
                         EXCEPT !.attempt = @ + 1 ]
            /\ UNCHANGED << pc, result >>
       ELSE /\ tx' = [ tx EXCEPT !.stage = "raised" ]
            /\ pc' = tx.back
            /\ result' = Raised("BleakError")
    /\ UNCHANGED client
    /\ SendUnchanged

\* the link drops
LinkDrops ==
    /\ IsConnected
    /\ client' = "Dropped"
    /\ UNCHANGED << pc, result, tx >>
    /\ SendUnchanged

\* disconnect() is called: "if self.client and self.client.is_connected"
Disconnect ==
    /\ pc \in { "idle", "ready", "failed" }
    /\ IF IsConnected
       THEN /\ pc' = "disc_stop"
            /\ result' = NoResult
            /\ tx' = [ NoTx EXCEPT !.back = pc, !.held = TRUE ]
       ELSE /\ pc' = pc
            /\ result' = [ tag |-> "disconnected", value |-> << >> ]
            /\ tx' = [ NoTx EXCEPT !.back = pc, !.held = (client # "None"),
                                   !.closed = TRUE ]
    /\ UNCHANGED client
    /\ SendUnchanged

\* stop_notify is awaited: it returns, or raises on a link that dropped
\* in between
DisconnectStop ==
    /\ pc = "disc_stop"
    /\ IF IsConnected
       THEN /\ client' = "Unsubscribed"
            /\ pc' = "disc_close"
            /\ UNCHANGED << result, tx >>
       ELSE /\ result' = Raised("BleakError")
            /\ pc' = tx.back
            /\ tx' = [ tx EXCEPT !.closed = TRUE ]
            /\ UNCHANGED client
    /\ SendUnchanged

\* client.disconnect() is awaited, then "self.client = None"
DisconnectClose ==
    /\ pc = "disc_close"
    /\ client' = "None"
    /\ pc' = "idle"
    /\ result' = [ tag |-> "disconnected", value |-> << >> ]
    /\ tx' = [ tx EXCEPT !.closed = TRUE ]
    /\ SendUnchanged

SendInit ==
    /\ \/ /\ client = "BleakClient"
          /\ pc = "ready"
          /\ crypto = [ name |-> "Unnamed", ble_data |-> DeviceKey,
                        app_data |-> APP_KEY ]
          /\ result = [ tag |-> "connected", value |-> << >> ]
          /\ hist = [ NoHist EXCEPT !.paired = TRUE ]
       \/ /\ client = "BleakClient"
          /\ pc = "failed"
          /\ crypto = [ NoCrypto EXCEPT !.name = "Unnamed" ]
          /\ result = Raised("TimeoutError")
          /\ hist = NoHist
       \/ /\ client = "None"
          /\ pc = "idle"
          /\ crypto = NoCrypto
          /\ result = NoResult
          /\ hist = NoHist
    /\ receive_queue = << >>
    /\ receive_buffer = << >>
    /\ reqCaller = "none"
    /\ rcvCaller = "none"
    /\ request = NoPacket
    /\ reqLeft = 0
    /\ rcvLeft = 0
    /\ sleepLeft = 0
    /\ resp = NoPacket
    /\ received_key = << >>
    /\ received_serial = << >>
    /\ reg = "none"
    /\ regI = 0
    /\ regData = << >>
    /\ cbError = "ok"
    /\ rx = NoRx
    /\ tx = NoTx
    /\ fr = NoFr
    /\ ev = NoEv
    /\ proc = NoProc

SendNext ==
    \/ \E packet \in SendPackets : Send(packet)
    \/ SendWritten
    \/ SendWriteFails
    \/ LinkDrops
    \/ Disconnect
    \/ DisconnectStop
    \/ DisconnectClose

SpecSend == SendInit /\ [][SendNext]_vars

----------------------------------------------------------------------------
(* The handler tasks and the receive queue.  The handler is a coroutine:   *)
(* every notification starts a task of its own, which runs up to its one   *)
(* await, receive_queue.put, without another task in between, and is       *)
(* suspended there while the queue is full.  Tasks run in the order in     *)
(* which they became ready.  The caller's receive() takes a packet at any  *)
(* time the queue is not empty.                                            *)

\* capacity of the receive queue in the model (asyncio.Queue(100))
QueueSize == 2

\* notifications the device sends
MaxNotified == 5

\* the n-th frame of the device
EvPacket(n) == Packet("ES_CONTROL", "PC", "READ_ACK", n, << n >>)

EvUnchanged ==
    UNCHANGED << crypto, client, pc, reqCaller, rcvCaller, request, reqLeft,
                 rcvLeft, sleepLeft, resp, received_key, received_serial,
                 reg, regI, regData, result, hist, rx, tx, fr, proc >>

\* the device sends its next frame in one notification: a task is made
\* for the handler
EvNotify ==
    /\ client = "BleakClient"
    /\ ev.sent < MaxNotified
    /\ ev' = [ ev EXCEPT
                 !.sent = @ + 1,
                 !.ready = Append(@, [ kind |-> "start",
                                       data |-> Encrypt(crypto,
                                                  Pack(EvPacket(ev.sent + 1))),
                                       packet |-> NoPacket ]) ]
    /\ UNCHANGED << receive_queue, receive_buffer, cbError >>
    /\ EvUnchanged

\* (variant: the packet is put without the test for a full queue)
EvPutNowait(e, packet) ==
    /\ ev' = e
    /\ receive_queue' = Append(receive_queue, packet)

\* receive_queue.put(packet): "while self.full()" the task waits as the
\* last of the putters; else put_nowait
EvPut(e, packet) ==
    IF Len(receive_queue) >= QueueSize
    THEN /\ ev' = [ e EXCEPT !.putters = Append(@, packet) ]
         /\ UNCHANGED receive_queue
    ELSE /\ ev' = e
         /\ receive_queue' = Append(receive_queue, packet)

\* the first ready task runs up to its next suspension or its end
EvRun ==
    /\ ev.ready # << >>
    /\ LET task == Head(ev.ready)
           e == [ ev EXCEPT !.ready = Tail(@) ]
           h == Handled(Buffered(task.data))
       IN  IF task.kind = "start"
           THEN /\ receive_buffer' = h.buffer
                /\ cbError' = h.error
                /\ IF h.put
                   THEN EvPut([ e EXCEPT !.arrived = Append(@, h.packet) ],
                              h.packet)
                   ELSE ev' = e /\ UNCHANGED receive_queue
           ELSE /\ EvPut(e, task.packet)
                /\ UNCHANGED << receive_buffer, cbError >>
    /\ EvUnchanged

\* receive() finds the queue not empty: receive_queue.get() returns the
\* first packet and wakes the first putter
EvReceive ==
    /\ receive_queue # << >>
    /\ receive_queue' = Tail(receive_queue)
    /\ ev' = [ ev EXCEPT
                 !.got = Append(@, Head(receive_queue)),
                 !.putters = IF @ = << >> THEN @ ELSE Tail(@),
                 !.ready = IF ev.putters = << >> THEN @
                           ELSE Append(@, [ kind |-> "wake",
                                            data |-> << >>,
                                            packet |-> Head(ev.putters) ]) ]
    /\ UNCHANGED << receive_buffer, cbError >>
    /\ EvUnchanged

EvInit ==
    /\ crypto = [ name |-> "Unnamed", ble_data |-> DeviceKey,
                  app_data |-> APP_KEY ]
    /\ receive_queue = << >>
    /\ receive_buffer = << >>
    /\ client = "BleakClient"
    /\ pc = "ready"
    /\ reqCaller = "none"
    /\ rcvCaller = "none"
    /\ request = NoPacket
    /\ reqLeft = 0
    /\ rcvLeft = 0
    /\ sleepLeft = 0
    /\ resp = NoPacket
    /\ received_key = DeviceKey
    /\ received_serial = DeviceSerial
    /\ reg = "none"
    /\ regI = 0
    /\ regData = << >>
    /\ result = [ tag |-> "connected", value |-> << >> ]
    /\ cbError = "ok"
    /\ hist = [ NoHist EXCEPT !.paired = TRUE ]
    /\ rx = NoRx
    /\ tx = NoTx
    /\ fr = NoFr
    /\ ev = NoEv
    /\ proc = NoProc

EvNext == EvNotify \/ EvRun \/ EvReceive

SpecQueue == EvInit /\ [][EvNext]_vars

----------------------------------------------------------------------------
(* Sessions: NinebotBleSensor.async_poll is called again and again on one  *)
(* client, disconnect() may be called between two polls.  The link stays   *)
(* up.  The device answers a request or stays silent, and it may answer    *)
(* once more when the call is over.  Of the reads of a poll the first one, *)
(* read_reg(NB_INF_SN), is followed; the later ones go the same way.       *)

\* the device's answer to S
Reply(S) ==
    CASE S.command = "INIT" ->
            Packet(S.target, S.source, "INIT", 0, DeviceKey \o DeviceSerial)
      [] S.command = "READ" ->
            Packet(S.target, S.source, "READ_ACK", S.data_index,
                   [ i \in 1..S.data_segment[1] |-> 65 ])
      [] OTHER -> Packet(S.target, S.source, S.command, 1, << >>)

\* no call is running on the client: the last poll or disconnect() has
\* returned or raised
BetweenCalls ==
    \/ pc \in { "idle", "failed" }
    \/ pc = "ready" /\ result.tag # "connected"

\* async_poll(device): "if not self.client.is_connected" connect(device)
\* is called, else the poll goes on to read_reg(CtrlIdx.NB_INF_SN)
AsyncPoll(name) ==
    /\ BetweenCalls
    /\ IF ~ IsConnected
       THEN ConnectCall(name)
       ELSE ReadRegCall("NB_INF_SN")

\* connect() has returned to async_poll: read_reg(CtrlIdx.NB_INF_SN)
PollRead ==
    /\ result.tag = "connected"
    /\ ReadReg("NB_INF_SN")

\* the device answers the request that is waiting
SessAnswer ==
    /\ pc = "receive"
    /\ rcvCaller = "request"
    /\ receive_queue = << >>
    /\ Notify(Reply(request))

\* the device answers the last request once more, after its call is over
SessLate ==
    /\ BetweenCalls
    /\ request # NoPacket
    /\ Notify(Reply(request))

\* disconnect() is called between two polls
SessDisconnect ==
    /\ BetweenCalls
    /\ Disconnect

SessNext ==
    \/ \E name \in DeviceNames : AsyncPoll(name)
    \/ PollRead
    \/ Established
    \/ ReqDrain
    \/ RequestGet
    \/ RequestRetry
    \/ RequestReturn
    \/ SessAnswer
    \/ SessLate
    \/ SessDisconnect
    \/ DisconnectStop
    \/ DisconnectClose
    \/ Tick

SpecSession == Init /\ [][SessNext]_vars

----------------------------------------------------------------------------
(* The app key: the module is imported, which runs the class body of       *)
(* NinebotClient once, with "APP_KEY = secrets.token_bytes(16)"; clients   *)
(* are constructed and run their handshakes up to set_app_data.            *)

\* the clients constructed in one process
MaxClients == 3

\* values secrets.token_bytes(16) may return
TokenBytes == { APP_KEY, [ i \in 1..16 |-> 255 - i ] }

\* a client after __init__: it has the attributes crypto, receive_queue,
\* receive_buffer and client, and self.APP_KEY is the class attribute
NewClient ==
    [ stage |-> "new",     \* "new", "keyed" (set_ble_data done), "pinged",
                           \*   "installed" (set_app_data done)
      token |-> 1,         \* the call of token_bytes that made the value
                           \*   of self.APP_KEY
      ping |-> << >>,      \* the data of the PING it sent
      app_data |-> << >> ] \* what its cipher got by set_app_data

KeyUnchanged ==
    UNCHANGED << crypto, receive_queue, receive_buffer, client, pc,
                 reqCaller, rcvCaller, request, reqLeft, rcvLeft, sleepLeft,
                 resp, received_key, received_serial, reg, regI, regData,
                 result, cbError, hist, rx, tx, fr, ev >>

\* NinebotClient()
KeyConstruct ==
    /\ Len(proc.clients) < MaxClients
    /\ proc' = [ proc EXCEPT !.clients = Append(@, NewClient) ]
    /\ KeyUnchanged

\* connect() of client i up to set_ble_data
KeyInit(i) ==
    /\ proc.clients[i].stage = "new"
    /\ proc' = [ proc EXCEPT !.clients[i].stage = "keyed" ]
    /\ KeyUnchanged

\* client i sends Packet(PC, ES_BLE, PING, 0, self.APP_KEY)
KeyPing(i) ==
    /\ proc.clients[i].stage = "keyed"
    /\ proc' = [ proc EXCEPT !.clients[i].stage = "pinged",
                             !.clients[i].ping = proc.APP_KEY ]
    /\ KeyUnchanged

\* client i: self.crypto.set_app_data(self.APP_KEY)
KeyInstall(i) ==
    /\ proc.clients[i].stage = "pinged"
    /\ proc' = [ proc EXCEPT !.clients[i].stage = "installed",
                             !.clients[i].app_data = proc.APP_KEY ]
    /\ KeyUnchanged

KeyProcInit ==
    /\ \E k \in TokenBytes :
          proc = [ NoProc EXCEPT !.APP_KEY = k, !.generated = << k >> ]
    /\ crypto = NoCrypto
    /\ receive_queue = << >>
    /\ receive_buffer = << >>
    /\ client = "None"
    /\ pc = "idle"
    /\ reqCaller = "none"
    /\ rcvCaller = "none"
    /\ request = NoPacket
    /\ reqLeft = 0
    /\ rcvLeft = 0
    /\ sleepLeft = 0
    /\ resp = NoPacket
    /\ received_key = << >>
    /\ received_serial = << >>
    /\ reg = "none"
    /\ regI = 0
    /\ regData = << >>
    /\ result = NoResult
    /\ cbError = "ok"
    /\ hist = NoHist
    /\ rx = NoRx
    /\ tx = NoTx
    /\ fr = NoFr
    /\ ev = NoEv

KeyNext ==
    \/ KeyConstruct
    \/ \E i \in 1..Len(proc.clients) : KeyInit(i)
    \/ \E i \in 1..Len(proc.clients) : KeyPing(i)
    \/ \E i \in 1..Len(proc.clients) : KeyInstall(i)

SpecKeys == KeyProcInit /\ [][KeyNext]_vars

----------------------------------------------------------------------------
(* The framer: Packet.pack and Packet.unpack are applied to packets and to *)
(* byte strings.                                                           *)

\* the longest payload of the packets given to the framer
MaxSegment == 3

\* the bytes of these payloads
FrBytes == { 0, 90, 255 }

RECURSIVE SeqsUpTo(_, _)
SeqsUpTo(S, n) ==
    IF n = 0 THEN { << >> }
    ELSE LET shorter == SeqsUpTo(S, n - 1)
         IN  shorter \cup { Append(q, b) : q \in { r \in shorter : Len(r) = n - 1 },
                                            b \in S }

FrPackets ==
    { Packet(src, tgt, cmd, idx, seg) :
         src \in DeviceId, tgt \in DeviceId, cmd \in Command,
         idx \in { 0, 1, 255 }, seg \in SeqsUpTo(FrBytes, MaxSegment) }

\* the frames the rejected inputs are made of: two of known source, target
\* and command, and these with an unknown command byte
FrFrames ==
    LET known == { Pack(Packet("ES_BLE", "PC", "PAIR", 1, << >>)),
                   Pack(Packet("ES_CONTROL", "PC", "READ_ACK", 26,
                               << 52, 18 >>)) }
    IN  known \cup { [ d EXCEPT ![6] = 0 ] : d \in known }

\* inputs shorter than 7 bytes
FrShort == { Take(d, k) : d \in FrFrames, k \in 0..6 }

\* inputs of 7 bytes or more that do not start with 5A A5
FrBadPreamble ==
    { [ d EXCEPT ![1] = 0 ] : d \in FrFrames }
       \cup { [ d EXCEPT ![2] = 90 ] : d \in FrFrames }
       \cup { << 165, 90 >> \o Drop(d, 2) : d \in FrFrames }

\* inputs whose len byte declares more payload than they hold
FrTruncated ==
    { [ d EXCEPT ![3] = @ + more ] : d \in FrFrames, more \in { 1, 2, 200 } }

\* byte strings to unpack and pack again: whole frames, and whole frames
\* followed by further bytes
FrLonger ==
    LET whole == { Pack(p) : p \in { q \in FrPackets :
                                        /\ q.data_index = 1
                                        /\ q.source = "ES_CONTROL"
                                        /\ q.target = "PC"
                                        /\ q.command = "READ_ACK" } }
    IN  whole \cup { d \o more : d \in whole,
                                 more \in SeqsUpTo(FrBytes, 2) \ { << >> } }

FrUnchanged ==
    UNCHANGED << crypto, receive_queue, receive_buffer, client, pc,
                 reqCaller, rcvCaller, request, reqLeft, rcvLeft, sleepLeft,
                 resp, received_key, received_serial, reg, regI, regData,
                 result, cbError, hist, rx, tx, ev, proc >>

\* fr.packet.pack()
FrPack ==
    /\ fr.kind = "roundtrip"
    /\ fr.stage = "given"
    /\ fr' = [ fr EXCEPT !.stage = "packed", !.data = Pack(fr.packet) ]
    /\ FrUnchanged

\* Packet.unpack(fr.data)
FrUnpack ==
    /\ \/ fr.kind = "roundtrip" /\ fr.stage = "packed"
       \/ fr.kind \in { "short", "preamble", "truncated", "bytes" }
             /\ fr.stage = "given"
    /\ fr' = [ fr EXCEPT !.stage = "unpacked", !.out = Unpack(fr.data) ]
    /\ FrUnchanged

\* pack() of the packet that Packet.unpack(fr.data) returned
FrRepack ==
    /\ fr.kind = "bytes"
    /\ fr.stage = "unpacked"
    /\ fr.out.tag = "Packet"
    /\ fr' = [ fr EXCEPT !.stage = "repacked", !.back = Pack(fr.out.packet) ]
    /\ FrUnchanged

FrInit ==
    /\ \/ \E p \in FrPackets :
             fr = [ NoFr EXCEPT !.stage = "given", !.kind = "roundtrip",
                                !.packet = p ]
       \/ \E d \in FrShort :
             fr = [ NoFr EXCEPT !.stage = "given", !.kind = "short",
                                !.data = d ]
       \/ \E d \in FrBadPreamble :
             fr = [ NoFr EXCEPT !.stage = "given", !.kind = "preamble",
                                !.data = d ]
       \/ \E d \in FrTruncated :
             fr = [ NoFr EXCEPT !.stage = "given", !.kind = "truncated",
                                !.data = d ]
       \/ \E d \in FrLonger :
             fr = [ NoFr EXCEPT !.stage = "given", !.kind = "bytes",
                                !.data = d ]
    /\ crypto = NoCrypto
    /\ receive_queue = << >>
    /\ receive_buffer = << >>
    /\ client = "None"
    /\ pc = "idle"
    /\ reqCaller = "none"
    /\ rcvCaller = "none"
    /\ request = NoPacket
    /\ reqLeft = 0
    /\ rcvLeft = 0
    /\ sleepLeft = 0
    /\ resp = NoPacket
    /\ received_key = << >>
    /\ received_serial = << >>
    /\ reg = "none"
    /\ regI = 0
    /\ regData = << >>
    /\ result = NoResult
    /\ cbError = "ok"
    /\ hist = NoHist
    /\ rx = NoRx
    /\ tx = NoTx
    /\ ev = NoEv
    /\ proc = NoProc

FrNext == FrPack \/ FrUnpack \/ FrRepack

SpecFrame == FrInit /\ [][FrNext]_vars

----------------------------------------------------------------------------
(* Reassembly: the notification handler is fed                             *)
(*   "split":    a valid frame cut into consecutive notifications, the     *)
(*               first of which starts with the magic;                     *)
(*   "junk":     a notification without the magic, then a whole frame;     *)
(*   "overlong": a notification that makes the buffer longer than the      *)
(*               declared frame, then a whole frame;                       *)
(*   "badenum":  a whole frame whose source, target or command byte is no  *)
(*               value of its enum.                                        *)
(* rx.rest is the part of the frame not yet sent, rx.chunks the number of  *)
(* notifications of the frame sent so far.                                 *)

\* the cipher states of the feed
RxCryptos ==
    { [ name |-> "Unnamed", ble_data |-> << >>, app_data |-> << >> ],
      [ name |-> "Ninebot", ble_data |-> DeviceKey, app_data |-> << >> ] }

\* a payload whose ciphertext under c starts with the magic bytes
MagicPayload(c) == Drop(Decrypt(c, << 0, 0, 0, 0, 0, 0, 0, 90, 165, 7 >>), 7)

\* the frames of the feed
RxPackets(c) ==
    { Packet("ES_BLE", "PC", "PAIR", 1, << >>),
      Packet("ES_CONTROL", "PC", "READ_ACK", 26, << 52, 18 >>),
      Packet("ES_CONTROL", "PC", "READ_ACK", 41, MagicPayload(c)) }

\* notifications that do not start with the magic
JunkChunks ==
    { << 1 >>, << 90 >>, << 1, 2 >>, << 1, 2, 3 >>,
      << 1, 2, 0, 4, 5, 6, 7 >>, << 1, 2, 0, 4, 5, 6, 7, 8 >> }

\* what the buffer may hold when the feed begins: nothing, or the frame
\* delivered before
RxBuffers(c) ==
    { << >>, Encrypt(c, Pack(Packet("ES_BLE", "PC", "PING", 0, << >>))) }

\* the byte of the frame that is made an unknown enum value in the
\* scenario: source, target or command; 0 for none
UnknownAt(scen) == IF scen = "badenum" THEN { 4, 5, 6 } ELSE { 0 }

RxInit ==
    /\ crypto \in RxCryptos
    /\ receive_queue = << >>
    /\ client = "BleakClient"
    /\ \E scen \in { "split", "junk", "overlong", "badenum" } :
         \E p \in RxPackets(crypto), k \in UnknownAt(scen) :
            /\ rx = [ scen |-> scen,
                      stage |-> IF scen \in { "split", "badenum" }
                                THEN "frame" ELSE "before",
                      frame |-> p,
                      rest |-> Encrypt(crypto,
                                  IF k = 0 THEN Pack(p)
                                  ELSE [ Pack(p) EXCEPT ![k] = 0 ]),
                      chunks |-> 0, laterMagic |-> FALSE, raised |-> FALSE,
                      junk |-> << >> ]
            /\ receive_buffer \in
                  IF scen = "junk" THEN { << >> } ELSE RxBuffers(crypto)
    /\ pc = "ready"
    /\ reqCaller = "none"
    /\ rcvCaller = "none"
    /\ request = NoPacket
    /\ reqLeft = 0
    /\ rcvLeft = 0
    /\ sleepLeft = 0
    /\ resp = NoPacket
    /\ received_key = << >>
    /\ received_serial = << >>
    /\ reg = "none"
    /\ regI = 0
    /\ regData = << >>
    /\ result = NoResult
    /\ cbError = "ok"
    /\ hist = NoHist
    /\ tx = NoTx
    /\ fr = NoFr
    /\ ev = NoEv
    /\ proc = NoProc

RxUnchanged ==
    UNCHANGED << crypto, client, pc, reqCaller, rcvCaller, request, reqLeft,
                 rcvLeft, sleepLeft, resp, received_key, received_serial,
                 reg, regI, regData, result, hist, tx, fr, ev, proc >>

\* a junk notification arrives
RxJunk(data) ==
    /\ rx.scen = "junk"
    /\ rx.stage = "before"
    /\ ReadCallback(data)
    /\ rx' = [ rx EXCEPT !.stage = "frame", !.junk = data,
                         !.raised = (cbError' # "ok") ]
    /\ RxUnchanged

\* a notification arrives that leaves more bytes in the buffer than the
\* frame it holds declares
RxOverlong(data) ==
    /\ rx.scen = "overlong"
    /\ rx.stage = "before"
    /\ Len(Buffered(data)) >= 3
    /\ Len(Decrypt(crypto, Buffered(data))) > Buffered(data)[3] + 7
    /\ ReadCallback(data)
    /\ rx' = [ rx EXCEPT !.stage = "frame", !.junk = data,
                         !.raised = (cbError' # "ok") ]
    /\ RxUnchanged

\* the next k bytes of the frame arrive in one notification
RxChunk(k) ==
    /\ rx.stage = "frame"
    /\ k \in 1..Len(rx.rest)
    /\ rx.scen = "split" /\ rx.chunks = 0 => k >= 2
    /\ rx.scen # "split" => k = Len(rx.rest)
    /\ ReadCallback(Take(rx.rest, k))
    /\ rx' = [ rx EXCEPT
                 !.rest = Drop(rx.rest, k),
                 !.stage = IF k = Len(rx.rest) THEN "done" ELSE "frame",
                 !.chunks = @ + 1,
                 !.laterMagic = @ \/ ( /\ rx.chunks > 0
                                       /\ Take(Take(rx.rest, k), 2) = MAGIC ),
                 !.raised = @ \/ (cbError' # "ok") ]
    /\ RxUnchanged

\* the longest frame of the feed
MaxFrameLen == 10

RxNext ==
    \/ \E data \in JunkChunks : RxJunk(data)
    \/ \E data \in JunkChunks \cup
                   { Encrypt(crypto, Pack(p)) \o extra :
                       p \in RxPackets(crypto),
                       extra \in { << 0 >>, << 90, 165 >> } } :
          RxOverlong(data)
    \/ \E k \in 1..MaxFrameLen : RxChunk(k)

SpecRx == RxInit /\ [][RxNext]_vars

----------------------------------------------------------------------------
(* Properties of the reassembly (SpecRx) *)

\* C8 as stated: once every chunk of a split frame whose first chunk starts
\* with the magic has been handled, the receive queue holds exactly the
\* frame's packet.
C8_AnySplitYieldsPacket ==
    rx.scen = "split" /\ rx.stage = "done" => receive_queue = << rx.frame >>

\* C8, amended: the same when no chunk after the first starts with the magic
\* bytes 5A A5; and no packet is on the queue before the last chunk.
C8_SplitYieldsPacket ==
    /\ rx.scen = "split" /\ rx.stage = "done" /\ ~ rx.laterMagic
          => receive_queue = << rx.frame >>
    /\ rx.scen = "split" /\ rx.stage = "frame" /\ ~ rx.laterMagic
          => receive_queue = << >>

\* a frame that arrived in three or more chunks, the first being only the
\* two magic bytes, is on the queue
C8_Witness ==
    /\ rx.scen = "split"
    /\ rx.stage = "done"
    /\ ~ rx.laterMagic
    /\ rx.chunks >= 3
    /\ rx.raised
    /\ receive_queue = << rx.frame >>

\* C9 as stated: junk without the magic, then a whole frame, leaves exactly
\* the frame's packet on the queue, and no run of the handler has failed.
C9_JunkThenFrame ==
    rx.scen = "junk" /\ rx.stage = "done"
       => receive_queue = << rx.frame >> /\ ~ rx.raised

\* C10: after a notification that makes the decrypted buffer longer than the
\* declared frame length the buffer is empty and nothing is enqueued; the
\* valid notification that follows puts its packet on the queue.
C10_MalformedThenFrame ==
    /\ rx.scen = "overlong" /\ rx.stage = "frame"
          => receive_buffer = << >> /\ receive_queue = << >>
    /\ rx.scen = "overlong" /\ rx.stage = "done"
          => receive_queue = << rx.frame >>

\* the overlong notification started with the magic, and the frame after it
\* was delivered
C10_Witness ==
    /\ rx.scen = "overlong"
    /\ rx.stage = "done"
    /\ Take(rx.junk, 2) = MAGIC
    /\ receive_queue = << rx.frame >>

\* C17: when the handler has handled the notification that completes a
\* frame and has put the packet on the queue, the receive buffer is empty.
C17_BufferEmptyAfterFrame ==
    /\ rx.scen \in { "split", "junk", "overlong" }
    /\ rx.stage = "done"
    /\ receive_queue = << rx.frame >>
    => receive_buffer = << >>

\* C18: a whole frame with an unknown source, target or command byte is
\* dropped by the handler: nothing is raised, nothing is enqueued, and the
\* receive buffer is reset.
C18_UnknownEnumDropped ==
    rx.scen = "badenum" /\ rx.stage = "done" =>
       /\ cbError = "ok"
       /\ receive_queue = << >>
       /\ receive_buffer = << >>

----------------------------------------------------------------------------
(* Properties of the handshake (Spec, FairSpec) *)

\* C1: whenever connect() has returned, set_app_data(APP_KEY) was called:
\* the cipher holds the app key.
C1_AppKeyInstalled == hist.paired => crypto.app_data = APP_KEY

\* C3: the cipher is told the name (the device name, "Unnamed" without one)
\* before anything is sent; set_ble_data gets the first 16 bytes of the INIT
\* reply, after that reply and before PING is sent; set_app_data is called
\* only on a dequeued PING packet with data_index 1.
C3_CipherOrder ==
    /\ hist.log # << >> =>
          /\ hist.log[1] = "set_name"
          /\ crypto.name =
                IF hist.device = "None" THEN "Unnamed" ELSE hist.device
    /\ Pos("set_ble_data") > 0 =>
          /\ hist.gotInit
          /\ hist.initReply.command = "INIT"
          /\ crypto.ble_data = Take(hist.initReply.data_segment, 16)
          /\ Pos("INIT") < Pos("set_ble_data")
    /\ Pos("PING") > 0 =>
          0 < Pos("set_ble_data") /\ Pos("set_ble_data") < Pos("PING")
    /\ crypto.ble_data # << >> => Pos("set_ble_data") > 0
    /\ Pos("set_app_data") > 0 =>
          /\ resp.command = "PING"
          /\ resp.data_index = 1
          /\ Pos("PING") < Pos("set_app_data")
    /\ crypto.app_data # << >> => Pos("set_app_data") > 0

\* connect() has returned after all three cipher calls
C3_Witness ==
    /\ hist.paired
    /\ hist.log = << "set_name", "INIT", "set_ble_data", "PING", "PAIR",
                     "set_app_data", "PAIR" >>
    /\ crypto.ble_data = DeviceKey

\* C4 as stated: the device answered INIT, answered the first PING with
\* data_index 0 and sent one PAIR reply with data_index 1 after one
\* iteration of the pairing loop; then connect(), once over, has sent PAIR
\* after INIT and PING and has returned.
C4_OnePairReplySuffices ==
    /\ pc \in { "ready", "failed" }
    /\ hist.firstPing = 0
    /\ hist.exitVia = "PAIR"
    /\ hist.loopIter >= 1
    /\ hist.devPairs = 1
    => /\ hist.paired
       /\ 0 < Pos("INIT") /\ Pos("INIT") < Pos("PING")
       /\ Pos("PING") < Pos("PAIR")

\* C4, amended: when the pairing loop is left on a PAIR packet with
\* data_index 1, the first PING was answered with data_index 0 and PAIR was
\* sent after INIT and PING; connect() returns once the PAIR confirm request
\* it then sends dequeues a PAIR reply of the device, and not before.
C4_ButtonPress ==
    /\ hist.exitVia = "PAIR" =>
          /\ hist.firstPing = 0
          /\ resp.command = "PAIR" /\ resp.data_index = 1
          /\ 0 < Pos("INIT") /\ Pos("INIT") < Pos("PING")
          /\ Pos("PING") < Pos("PAIR")
    /\ hist.exitVia = "PAIR" /\ hist.confirmed =>
          \/ pc = "req_return" /\ reqCaller = "pair"
          \/ pc = "ready" /\ hist.paired
    /\ hist.exitVia = "PAIR" /\ hist.paired => hist.confirmed

\* the PAIR reply came after one iteration of the loop, and connect()
\* returned
C4_Witness ==
    /\ hist.exitVia = "PAIR"
    /\ hist.loopIter >= 1
    /\ hist.paired
    /\ pc = "ready"

\* connect() is in its pairing loop
InPairLoop ==
    /\ hist.exitVia = "none"
    /\ \/ pc = "pair_sleep"
       \/ pc = "receive" /\ rcvCaller = "loop"

\* the scooter reports paired: a PING or PAIR packet with data_index 1 is
\* waiting in the receive queue
ReportsPaired ==
    \E i \in 1..Len(receive_queue) :
       /\ receive_queue[i].command \in { "PING", "PAIR" }
       /\ receive_queue[i].data_index = 1

\* C5: the pairing loop always ends: while connect() is in the loop, the
\* loop is left later on (paired, or failed on a timeout) unless the scooter
\* reports paired.
C5_PairingLoopEnds == InPairLoop ~> (~ InPairLoop \/ ReportsPaired)

\* C19: the pairing loop is left only by dequeuing a PING or PAIR packet
\* with data_index 1, and connect() then goes on with its PAIR request; a
\* receive() that timed out or returned another packet is followed by the
\* sleep of the next iteration, after which PAIR is sent again; connect()
\* does not fail in the loop.
C19_LoopLeftOnlyWhenPaired ==
    /\ [][ InPairLoop /\ ~ InPairLoop' =>
              /\ pc = "receive" /\ rcvLeft > 0 /\ receive_queue # << >>
              /\ Head(receive_queue).command \in { "PING", "PAIR" }
              /\ Head(receive_queue).data_index = 1
              /\ receive_queue' = Tail(receive_queue)
              /\ resp' = Head(receive_queue)
              /\ pc' = "req_drain" /\ reqCaller' = "pair"
              /\ result' = result ]_vars
    /\ [][ InPairLoop /\ InPairLoop' /\ pc = "receive" /\ pc' # pc =>
              /\ pc' = "pair_sleep"
              /\ sleepLeft' = PairSleep
              /\ result' = result ]_vars
    /\ [][ InPairLoop /\ pc = "pair_sleep" /\ pc' # pc =>
              /\ sleepLeft = 0
              /\ pc' = "receive" /\ rcvCaller' = "loop"
              /\ hist'.log[Len(hist'.log)] = "PAIR" ]_vars

\* the loop was left on a packet with data_index 1 after an iteration whose
\* receive() had timed out
C19_Witness ==
    /\ hist.exitVia \in { "PING", "PAIR" }
    /\ hist.loopTimedOut
    /\ hist.loopIter >= 1
    /\ resp.data_index = 1

----------------------------------------------------------------------------
(* Properties of request() and read_reg() (SpecRead, FairSpecRead) *)

\* C2: the packet request(S) returns comes from S.target, goes to S.source,
\* has the command expected for S.command and, when S.command.value <= 5,
\* the data_index of S.
C2_ReplyMatches ==
    pc = "req_return" =>
       /\ hist.reply.source = request.target
       /\ hist.reply.target = request.source
       /\ hist.reply.command =
             (IF request.command = "READ" THEN "READ_ACK"
              ELSE request.command)
       /\ CommandValue[request.command] <= 5 =>
             hist.reply.data_index = request.data_index

\* a READ returns its READ_ACK after a READ_ACK with another data_index was
\* dropped
C2_Witness ==
    /\ pc = "req_return"
    /\ request.command = "READ"
    /\ hist.dropped = "index"
    /\ hist.reply.data_index = request.data_index

\* a request() call is running
InRequest == pc \in { "req_drain", "receive" }

\* C6 as stated: a packet is returned only if it was dequeued before the
\* outer deadline; otherwise the call fails with Timeout.
C6_NoReplyAfterDeadline == pc = "req_return" => ~ hist.replyLate

\* C6, amended: every call of request() ends, returning a packet or raising
\* TimeoutError, whatever keeps arriving; once its deadline has passed it
\* does not send S again and calls receive() no more, so that the last
\* packet it can return is one dequeued by the receive() call that was
\* running at the deadline.
C6_RequestEnds ==
    /\ InRequest ~> (pc = "req_return" \/ result.tag = "TimeoutError")
    /\ [][ InRequest /\ reqLeft = 0 =>
              /\ rcvLeft' <= rcvLeft
              /\ hist'.sends <= hist.sends
              /\ pc' = "req_return" \/ pc' = pc \/ result'.tag = "TimeoutError"
         ]_vars

\* a call that dropped packets has failed with Timeout
C6_Witness ==
    /\ pc = "ready"
    /\ result.tag = "TimeoutError"
    /\ hist.dropped # "none"
    /\ hist.timeouts >= 1

\* C7: while request(S) runs, S has been sent once more than receive() has
\* timed out, so a reply that comes after two timeouts comes after three
\* sends; the reply dequeued is returned, and read_reg returns the decoded
\* value of the replies.
C7_RetryResends ==
    /\ InRequest \/ pc = "req_return" => hist.sends = hist.timeouts + 1
    /\ pc = "req_return" =>
          Len(hist.log) = 1 /\ hist.log[1] = request.command
    /\ pc = "ready" /\ result.tag = "value" =>
          /\ hist.sends = hist.timeouts + 1
          /\ request.command = "READ"
          /\ request.data_index = 26 => result.value = << 18, 3, 4 >>
          /\ request.data_index = 42 => result.value = << 10 >>

\* read_reg returned the firmware version after two timeouts
C7_Witness ==
    /\ pc = "ready"
    /\ result = [ tag |-> "value", value |-> << 18, 3, 4 >> ]
    /\ hist.timeouts >= 2
    /\ hist.sends >= 3

\* the request() calls read_reg(index) is to make: target and data_index
ExpectedReads(index) ==
    CASE index = "NB_FW_VER" -> << << "ES_CONTROL", 26 >> >>
      [] index = "NB_INF_RID_MIL" ->
            << << "ES_CONTROL", 41 >>, << "ES_CONTROL", 42 >> >>
      [] index = "BAT_SW_VER" -> << << "ES_BATT", 23 >> >>
      [] OTHER -> << >>

\* what read_reg(index) is to return for the payloads of the replies
ExpectedValue(index, replies) ==
    CASE index = "NB_FW_VER" /\ replies = << << 52, 18 >> >> -> << 18, 3, 4 >>
      [] index = "NB_INF_RID_MIL"
            /\ replies = << << 232, 3 >>, << 0, 0 >> >> -> << 10 >>
      [] index = "BAT_SW_VER" /\ replies = << << 5, 1 >> >> -> << 261 >>
      [] OTHER -> << >>

\* C12: the request() calls of read_reg are READ packets from PC to
\* ES_CONTROL (controller register) or ES_BATT (BMS register) for the
\* indexes index_start, index_start + 1, ... with data [read_len]; a call
\* is made when the replies to all calls before it have been returned;
\* read_reg returns the scaled decoded value of the replies' payloads in
\* order: 1.0 (ten tenths) for total mileage and [E8 03], [00 00].
C12_ReadReg ==
    /\ hist.index # "none" =>
          /\ Len(hist.reads) <= Len(ExpectedReads(hist.index))
          /\ \A i \in 1..Len(hist.reads) :
                hist.reads[i] =
                   Packet("PC", ExpectedReads(hist.index)[i][1], "READ",
                          ExpectedReads(hist.index)[i][2], << 2 >>)
    /\ reqCaller = "read" /\ (InRequest \/ pc = "req_return") =>
          /\ request = hist.reads[Len(hist.reads)]
          /\ Len(hist.replies) = Len(hist.reads) - 1
    /\ pc = "ready" /\ result.tag = "value" =>
          /\ Len(hist.reads) = Len(ExpectedReads(hist.index))
          /\ Len(hist.replies) = Len(hist.reads)
          /\ result.value = ExpectedValue(hist.index, hist.replies)

\* total mileage was read with two requests and is 1.0
C12_Witness ==
    /\ pc = "ready"
    /\ hist.index = "NB_INF_RID_MIL"
    /\ Len(hist.reads) = 2
    /\ hist.replies = << << 232, 3 >>, << 0, 0 >> >>
    /\ result = [ tag |-> "value", value |-> << 10 >> ]

\* read_reg has raised the TimeoutError of one of its requests
ReadFailed ==
    /\ pc = "ready"
    /\ reqCaller = "read"
    /\ result.tag = "TimeoutError"

\* C13: when a request() of read_reg raises TimeoutError, read_reg raises
\* it: it returns no value, and as long as it is not called again no READ
\* is sent for the indexes that are left.
C13_ReadFails ==
    /\ [](ReadFailed => result.value = << >> /\ regData = << >>)
    /\ [][ reqCaller = "read" /\ InRequest /\ ~ InRequest'
               /\ pc' # "req_return"
              => ReadFailed' /\ hist'.reads = hist.reads ]_vars
    /\ [][ ReadFailed /\ result' = result =>
              /\ hist'.reads = hist.reads
              /\ hist'.sends = hist.sends
              /\ hist'.log = hist.log
              /\ pc' = pc ]_vars

\* the second request of a total-mileage read timed out after the first
\* had returned its reply
C13_Witness ==
    /\ ReadFailed
    /\ hist.index = "NB_INF_RID_MIL"
    /\ Len(hist.reads) = 2
    /\ hist.replies = << << 232, 3 >> >>

\* C23: the packet request(S) returns was put on the queue after the call
\* first sent S; a packet that was on the queue before, such as the second
\* answer to a READ that an earlier request sent twice, is not returned.
C23_ReplyFresh == pc = "req_return" => ~ hist.replyStale

----------------------------------------------------------------------------
(* Properties of send() and disconnect() (SpecSend) *)

RECURSIVE Concat(_)
Concat(ss) == IF ss = << >> THEN << >> ELSE ss[1] \o Concat(Tail(ss))

\* C11: a send() that returned without a write error has made ceil(N/20)
\* writes for its ciphertext of N bytes, each of 1 to 20 bytes, which put
\* together in order are the ciphertext; every write had returned before
\* the next was begun.
C11_Chunking ==
    tx.stage = "sent" /\ tx.attempt = 0 =>
       /\ Len(tx.writes) = (Len(tx.msg) + 19) \div 20
       /\ \A i \in 1..Len(tx.writes) :
             Len(tx.writes[i]) >= 1 /\ Len(tx.writes[i]) <= 20
       /\ Concat(tx.writes) = tx.msg
       /\ tx.done = Len(tx.writes)
       /\ ~ tx.overlap

\* a ciphertext of 41 bytes went out in three writes
C11_Witness ==
    /\ tx.stage = "sent"
    /\ tx.attempt = 0
    /\ Len(tx.msg) = 41
    /\ Len(tx.writes) = 3
    /\ Len(tx.writes[3]) = 1

\* C16: once disconnect() is over, having been called with self.client
\* set, self.client is None, and a send() called after it raises the
\* "Must be connected first" AssertionError and writes nothing.
C16_DisconnectReleases ==
    tx.held /\ tx.closed =>
       /\ client = "None"
       /\ tx.stage # "none" =>
             /\ tx.stage = "raised"
             /\ result.tag = "AssertionError"
             /\ tx.writes = << >>

----------------------------------------------------------------------------
(* Properties of the framer (SpecFrame) *)

\* C14: unpack(pack(p)) has the source, target, command, data_index and
\* payload of p, and pack(p) is the 7 + L bytes
\* 5A A5 L source target command data_index payload.
C14_RoundTrip ==
    /\ fr.kind = "roundtrip" /\ fr.stage # "given" =>
          /\ Len(fr.data) = 7 + Len(fr.packet.data_segment)
          /\ fr.data = << 90, 165, Len(fr.packet.data_segment),
                          DeviceIdValue[fr.packet.source],
                          DeviceIdValue[fr.packet.target],
                          CommandValue[fr.packet.command],
                          fr.packet.data_index >> \o fr.packet.data_segment
    /\ fr.kind = "roundtrip" /\ fr.stage = "unpacked" =>
          /\ fr.out.tag = "Packet"
          /\ fr.out.packet.source = fr.packet.source
          /\ fr.out.packet.target = fr.packet.target
          /\ fr.out.packet.command = fr.packet.command
          /\ fr.out.packet.data_index = fr.packet.data_index
          /\ fr.out.packet.data_segment = fr.packet.data_segment

\* a packet with data_index 255 and a payload that holds the magic's first
\* byte went through pack and unpack
C14_Witness ==
    /\ fr.kind = "roundtrip"
    /\ fr.stage = "unpacked"
    /\ fr.packet.data_index = 255
    /\ fr.packet.source # fr.packet.target
    /\ Len(fr.packet.data_segment) >= 2
    /\ fr.packet.data_segment[1] = 90
    /\ fr.out.packet = fr.packet

\* C15: Packet.unpack returns None, and no Packet, for an input shorter
\* than 7 bytes, for one that does not start with 5A A5 and for one whose
\* len byte declares more payload bytes than it holds.
C15_Rejects ==
    fr.kind \in { "short", "preamble", "truncated" }
       /\ fr.stage = "unpacked"
       => fr.out = [ tag |-> "None", packet |-> NoPacket ]

\* an input of 7 bytes or more that starts with the magic and is shorter
\* than its len byte says was rejected
C15_Witness ==
    /\ fr.kind = "truncated"
    /\ fr.stage = "unpacked"
    /\ Len(fr.data) >= 7
    /\ Take(fr.data, 2) = << 90, 165 >>
    /\ Len(fr.data) < 7 + fr.data[3]
    /\ fr.out.tag = "None"

\* C27: for every byte string b that Packet.unpack accepts, the packet's
\* payload has b[2] bytes and pack() of the packet is b again; bytes after
\* the 7 + len declared ones are not taken into the payload.
C27_ReverseRoundTrip ==
    /\ fr.kind = "bytes" /\ fr.stage # "given" /\ fr.out.tag = "Packet" =>
          /\ Len(fr.out.packet.data_segment) = fr.data[3]
          /\ fr.out.packet.data_segment = SubSeq(fr.data, 8, 7 + fr.data[3])
    /\ fr.kind = "bytes" /\ fr.stage = "repacked" => fr.back = fr.data

----------------------------------------------------------------------------
(* Properties of sessions (SpecSession) *)

\* C24: when connect() is called after a disconnect() on the same client,
\* the receive queue and the reassembly buffer are empty, and the reply
\* request(INIT) returns was not on the queue when the request was sent:
\* nothing of the session before the disconnect() is left.
C24_DisconnectResets ==
    /\ pc = "establish" /\ tx.held /\ tx.closed =>
          /\ receive_queue = << >>
          /\ receive_buffer = << >>
    /\ pc = "req_return" /\ reqCaller = "init" /\ tx.held /\ tx.closed =>
          ~ hist.replyStale

\* C25: a READ request of async_poll is sent only when the connect() last
\* called on the client has returned: after a connect() that raised, the
\* next poll calls connect() again before it reads a register.
C25_ReadsOnlyWhenPaired ==
    reqCaller = "read" /\ (InRequest \/ pc = "req_return") => hist.paired

----------------------------------------------------------------------------
(* Properties of the app key (SpecKeys) *)

\* C22: each client has a key of its own, made by a call of
\* secrets.token_bytes for that client: no two clients of the process use
\* the value of the same call; the PING a client sends and the app key it
\* gives its cipher are that value.
C22_KeyPerInstance ==
    /\ \A i, j \in 1..Len(proc.clients) :
          i # j => proc.clients[i].token # proc.clients[j].token
    /\ \A i \in 1..Len(proc.clients) :
          LET c == proc.clients[i]
          IN  /\ c.token \in 1..Len(proc.generated)
              /\ c.stage \in { "pinged", "installed" } =>
                    c.ping = proc.generated[c.token]
              /\ c.stage = "installed" =>
                    c.app_data = proc.generated[c.token]

----------------------------------------------------------------------------
(* Properties of the catalog (SpecCatalog) *)

\* C26: for every register of both tables each READ asks for an address
\* in 0..255 and a read_len that fits a byte; when every READ_ACK carries
\* read_len bytes, read_reg hands index_len * read_len bytes to the
\* unpacker, which is the length its assert asks for (2, or 4 for the
\* two-register u32), so that no AssertionError is raised; NB_POWER and
\* NB_SINGLE_RUN_TIM are two entries that both read address 0xBA.
C26_CatalogConsistent ==
    /\ \A i \in 1..Len(hist.reads) :
          /\ hist.reads[i].data_index \in 0..255
          /\ hist.reads[i].data_index
                = get_register_desc(hist.index).index_start + i - 1
          /\ Len(hist.reads[i].data_segment) = 1
          /\ hist.reads[i].data_segment[1] \in 0..255
    /\ \A i \in 1..Len(hist.replies) :
          Len(hist.replies[i]) = hist.reads[i].data_segment[1]
    /\ pc = "ready" /\ hist.index # "none" =>
          LET desc == get_register_desc(hist.index)
          IN  /\ result.tag # "AssertionError"
              /\ Len(hist.reads) = desc.index_len
              /\ Len(Concat(hist.replies)) = desc.index_len * desc.read_len
              /\ AssertedLen(desc.unpacker) \in
                    { -1, desc.index_len * desc.read_len }
    /\ hist.index \in { "NB_POWER", "NB_SINGLE_RUN_TIM" } =>
          /\ hist.index \in CtrlIdx
          /\ hist.reads = << Packet("PC", "ES_CONTROL", "READ", 186,
                                    << 2 >>) >>
    /\ CTRL_TABLE["NB_POWER"] # CTRL_TABLE["NB_SINGLE_RUN_TIM"]

\* the total riding time was read with two requests and decoded from four
\* bytes
C26_Witness ==
    /\ pc = "ready"
    /\ hist.index = "NB_INF_RID_TIM"
    /\ Len(hist.replies) = 2
    /\ Len(Concat(hist.replies)) = 4
    /\ result.tag = "value"

----------------------------------------------------------------------------
(* Properties of the handler tasks and the receive queue (SpecQueue) *)

\* C20: receive() returns the packets in the order in which their frames
\* were completed, whatever the interleaving of the handlers and the
\* caller, also with handlers suspended on the full queue.
C20_ArrivalOrder ==
    /\ Len(ev.got) <= Len(ev.arrived)
    /\ \A i \in 1..Len(ev.got) : ev.got[i] = ev.arrived[i]

\* C21: the receive queue never holds more packets than its capacity,
\* however many notifications arrive while the caller does not call
\* receive(); a packet enters the queue only by the put of a handler task
\* and leaves it only by the get of receive().
C21_QueueBounded ==
    /\ [](Len(receive_queue) <= QueueSize)
    /\ [][ receive_queue' # receive_queue =>
              \/ /\ ev.ready # << >>
                 /\ ev'.ready = Tail(ev.ready)
                 /\ ev'.got = ev.got
                 /\ \E packet \in { EvPacket(n) : n \in 1..ev.sent } :
                       receive_queue' = Append(receive_queue, packet)
              \/ /\ receive_queue # << >>
                 /\ receive_queue' = Tail(receive_queue)
                 /\ ev'.got = Append(ev.got, Head(receive_queue)) ]_vars

\* every notification was handled while receive() was never called: the
\* queue is full and the other handlers wait in put
C21_Witness ==
    /\ ev.sent = MaxNotified
    /\ ev.ready = << >>
    /\ ev.got = << >>
    /\ Len(receive_queue) = QueueSize
    /\ Len(ev.putters) = MaxNotified - QueueSize
    /\ Len(ev.putters) >= 1

====
